---- MODULE Spec2Model ----
(***************************************************************************)
(* A model of the RPC transport, authentication recovery and retry policy  *)
(* of notebooklm_tools (core/base.py, core/retry.py, core/auth.py).        *)
(*                                                                         *)
(* Spec        one BaseClient issuing _call_rpc calls against a server     *)
(*             that may answer each request in any way                     *)
(* SpecRetry   execute_with_retry driving a callable with a fixed plan     *)
(* SpecExtract _extract_rpc_result applied to bounded parsed responses     *)
(* SpecParse   _parse_response applied to bounded response texts           *)
(* SpecBuild   _build_request_body applied to bounded rpc ids and params   *)
(* SpecDownload _download_url streaming a body to a temp file              *)
(* SpecUpload  add_file: validation and the three upload requests          *)
(* SpecArtifact the parsers of core/download.py on malformed records       *)
(* SpecWait    wait_for_source_ready polling against a clock               *)
(* SpecTool    the MCP tools studio_delete, note and studio_create         *)
(***************************************************************************)
EXTENDS Integers, Sequences, FiniteSets, TLC

VARIABLES
    \* ---- BaseClient and one _call_rpc in progress (Spec) ----
    pc,            \* where the originating _call_rpc stands
    stack,         \* the recursive _call_rpc frames, innermost last
    cookies,       \* self.cookies
    csrf_token,    \* self.csrf_token
    session_id,    \* self._session_id
    client,        \* self._client: the cached httpx.Client
    profile,       \* on disk: the default profile of the auth manager
    authJson,      \* on disk: the legacy cache file auth.json
    hist,          \* what the originating call has done so far
    outcome,       \* how the originating call ended
    \* ---- execute_with_retry (SpecRetry) ----
    rMax,          \* max_retries
    rPlan,         \* what func does on its i-th invocation
    rAttempt,      \* the loop variable attempt
    rCalls,        \* invocations of func so far
    rDelays,       \* the delays slept so far
    rOutcome,      \* running / returned / raised
    rValue,        \* the value returned or the status raised
    \* ---- _extract_rpc_result (SpecExtract) ----
    xParsed,       \* parsed_response
    xRpcId,        \* rpc_id
    xOut,          \* the result of the call
    \* ---- _parse_response (SpecParse) ----
    pText,         \* response_text, as lines
    pOut,          \* the result of the call
    \* ---- _build_request_body (SpecBuild) ----
    bIn,           \* rpc_id, params and self.csrf_token
    bOut,          \* the body returned
    \* ---- _download_url (SpecDownload) ----
    dFs,           \* on disk: the file at output_path and the one at <output_path>.tmp
    dCall,         \* the call in progress, or the last one
    \* ---- add_file (SpecUpload) ----
    uFile,         \* file_path on disk, and the wait argument
    uCall,         \* the call: where it stands, the requests issued, the result
    \* ---- the artifact parsers of download.py (SpecArtifact) ----
    aIn,           \* which parser is called, and its arguments
    aOut,          \* what the call returned or raised
    \* ---- wait_for_source_ready (SpecWait) ----
    wIn,           \* timeout and poll_interval
    wCall,         \* the call: where it stands, the clock, the polls, the result
    \* ---- the MCP tools studio_delete, note, studio_create (SpecTool) ----
    tIn,           \* the tool called, its arguments, what the services answer
    tOut,          \* the dict returned and the service calls made
    \* ---- services: download_sync, download_async, create_artifact (SpecService) ----
    sIn,           \* the function called, its arguments, what the client does
    sOut,          \* what the call returned or raised, and the client calls made
    \* ---- extract_id of _register_file_source (SpecRegister) ----
    gIn,           \* result: the decoded registration response
    gOut,          \* the SOURCE_ID returned, or the error raised
    \* ---- delete_mind_map (SpecMind) ----
    mIn,           \* the list response and mind_map_id
    mCall,         \* the call: where it stands, the RPCs issued, the result
    \* ---- two concurrent _download_url to one output path (SpecRace) ----
    cFs,           \* on disk: the directory entries and the files they name
    cProc          \* the two calls: where each stands, its open file, its result

rpcVars == <<pc, stack, cookies, csrf_token, session_id, client, profile,
             authJson, hist, outcome>>
retryVars == <<rMax, rPlan, rAttempt, rCalls, rDelays, rOutcome, rValue>>
extractVars == <<xParsed, xRpcId, xOut>>
parseVars == <<pText, pOut>>
buildVars == <<bIn, bOut>>
\* the state of BaseClient and of its protocol functions
coreVars == <<rpcVars, retryVars, extractVars, parseVars>>
\* the state of the operations modelled further down
downloadVars == <<dFs, dCall>>
uploadVars == <<uFile, uCall>>
artifactVars == <<aIn, aOut>>
waitVars == <<wIn, wCall>>
toolVars == <<tIn, tOut>>
\* the operations of sources.py, download.py and the MCP tools
midVars == <<buildVars, downloadVars, uploadVars, artifactVars, waitVars, toolVars>>
serviceVars == <<sIn, sOut>>
registerVars == <<gIn, gOut>>
mindVars == <<mIn, mCall>>
raceVars == <<cFs, cProc>>
tailVars == <<serviceVars, registerVars, mindVars, raceVars>>
laterVars == <<midVars, tailVars>>
vars == <<coreVars, laterVars>>

-----------------------------------------------------------------------------
(* Bounds of the model *)

\* how many distinct CSRF tokens the server hands out
NumTokens == 2

\* the largest max_retries execute_with_retry is called with
MaxRetriesArg == 3

\* the most items a parsed response holds
MaxItems == 3

\* the most lines a response text holds
MaxLines == 5

\* the most elements the params list of a request holds
MaxParams == 2

\* the most chunks a download streams
MaxChunks == 2

\* the most rows a data table holds
MaxRows == 3
\* timeout of wait_for_source_ready ranges over 0..MaxTimeout clock ticks
MaxTimeout == 3
\* poll_interval ranges over 0..MaxPollInterval clock ticks
MaxPollInterval == 2
\* one poll of the notebook takes 1..MaxPollTicks clock ticks
MaxPollTicks == 2
\* a list of a registration response has at most MaxWidth members
MaxWidth == 2
\* the list of mind maps has at most MaxMaps entries
MaxMaps == 2

-----------------------------------------------------------------------------
(* core/retry.py: the retry policy *)

RETRYABLE_STATUS_CODES == {429, 500, 502, 503, 504}

DEFAULT_MAX_RETRIES == 3

DEFAULT_BASE_DELAY == 1

DEFAULT_MAX_DELAY == 16

\* the HTTP statuses the server answers with
StatusCodes == {200, 400, 401, 403, 404} \cup {429, 500, 502, 503, 504}

\* 2 ** n
RECURSIVE Pow2(_)
Pow2(n) == IF n = 0 THEN 1 ELSE 2 * Pow2(n - 1)

Min(a, b) == IF a <= b THEN a ELSE b

\* a retry policy that leaves 429 out
is_retryable_error_only5xx(status) == status \in {500, 502, 503, 504}

\* a retry policy that also takes 404 for a transient error
is_retryable_error_with404(status) == status \in RETRYABLE_STATUS_CODES \cup {404}

\* a retry policy that also takes 401 for a transient error
is_retryable_error_with401(status) == status \in RETRYABLE_STATUS_CODES \cup {401}

\* is_retryable_error applied to an HTTPStatusError carrying `status`
is_retryable_error(status) == status \in RETRYABLE_STATUS_CODES

\* delay = min(base_delay * (2 ** attempt), max_delay)
BackoffDelay(attempt) ==
    Min(DEFAULT_BASE_DELAY * Pow2(attempt), DEFAULT_MAX_DELAY)

-----------------------------------------------------------------------------
(* core/base.py: _extract_rpc_result *)

\* An element of a chunk of the parsed response. A JSON list of `len` elements
\* is recorded by the positions the code reads: [0], [1], [2], [5] and [6].
\* f5list says whether item[5] is a list and f5 holds its members; a position
\* at or beyond len is absent and carries a filler the code must not read.
MkItem(isList, len, f0, f1, f2, f5list, f5, f6) ==
    [isList |-> isList, len |-> len, f0 |-> f0, f1 |-> f1, f2 |-> f2,
     f5list |-> f5list, f5 |-> f5, f6 |-> f6]

\* item[2]: a string holding JSON, a string that is not JSON, or null
StrJson(v) == [isStr |-> TRUE, json |-> TRUE, v |-> v]
StrRaw(v) == [isStr |-> TRUE, json |-> FALSE, v |-> v]
Null == [isStr |-> FALSE, json |-> FALSE, v |-> "None"]

\* A chunk of the parsed response: a list of items, or some other JSON value
ListChunk(items) == [isList |-> TRUE, items |-> items]
ScalarChunk == [isList |-> FALSE, items |-> <<>>]

\* What _extract_rpc_result does: raise AuthenticationError or return a value
Raised == [done |-> TRUE, raised |-> TRUE, kind |-> "AuthenticationError", v |-> "None"]
Returned(kind, v) == [done |-> TRUE, raised |-> FALSE, kind |-> kind, v |-> v]
ReturnedNone == Returned("none", "None")
NotCalled == [done |-> FALSE, raised |-> FALSE, kind |-> "none", v |-> "None"]

\* the test of an item without the rpc_id comparison
ItemMatches_anyRpc(item, rpc_id) ==
    /\ item.isList
    /\ item.len >= 3
    /\ item.f0 = "wrb.fr"

\* isinstance(item, list) and len(item) >= 3 and item[0] == "wrb.fr" and item[1] == rpc_id
ItemMatches(item, rpc_id) ==
    /\ item.isList
    /\ item.len >= 3
    /\ item.f0 = "wrb.fr"
    /\ item.f1 = rpc_id

\* len(item) > 6 and item[6] == "generic" and isinstance(item[5], list) and 16 in item[5]
IsError16(item) ==
    /\ item.len > 6
    /\ item.f6 = "generic"
    /\ item.f5list
    /\ 16 \in item.f5

\* result_str = item[2]: json.loads of a string, the raw value otherwise
LoadResult(p) ==
    IF p.isStr /\ p.json THEN Returned("decoded", p.v)
    ELSE IF p.isStr THEN Returned("rawstr", p.v)
    ELSE Returned("raw", p.v)

\* the inner loop `for item in chunk` from position i; "next" when it runs out
RECURSIVE ScanItems(_, _, _)
ScanItems(items, i, rpc_id) ==
    IF i > Len(items) THEN NotCalled
    ELSE IF ItemMatches(items[i], rpc_id)
         THEN IF IsError16(items[i]) THEN Raised ELSE LoadResult(items[i].f2)
         ELSE ScanItems(items, i + 1, rpc_id)

\* the outer loop `for chunk in parsed_response` from position c
RECURSIVE ScanChunks(_, _, _)
ScanChunks(parsed, c, rpc_id) ==
    IF c > Len(parsed) THEN ReturnedNone
    ELSE IF parsed[c].isList /\ ScanItems(parsed[c].items, 1, rpc_id).done
         THEN ScanItems(parsed[c].items, 1, rpc_id)
         ELSE ScanChunks(parsed, c + 1, rpc_id)

extract_rpc_result(parsed, rpc_id) == ScanChunks(parsed, 1, rpc_id)

-----------------------------------------------------------------------------
(* core/base.py: the session, the disk cache and the server *)

\* the CSRF tokens a page can carry; "" stands for no token
TokenNames == <<"tok1", "tok2", "tok3", "tok4">>
PageTokens == {TokenNames[i] : i \in 1..NumTokens}

\* the session ids a page can carry; "" stands for none
SessionIds == {"sid1"}

\* the cookie sets: the ones the client was built with, the ones found on
\* disk, the ones headless Chrome extracts; "" stands for an empty cookie dict
CookiesInit == "ck0"
CookiesDisk == "ckDisk"
CookiesHeadless == "ckHeadless"

\* the rpc the client calls, and another one
RpcId == "rpcA"
OtherRpcId == "rpcB"

\* a token file on disk (AuthTokens.to_dict), or its absence
NoFile == [exists |-> FALSE, cookies |-> "", csrf |-> "", sid |-> ""]
TokenFile(ck, tok, sid) == [exists |-> TRUE, cookies |-> ck, csrf |-> tok, sid |-> sid]

\* self._client = None
NoClient == [open |-> FALSE, cookies |-> "", csrf |-> ""]

\* _get_client: the cached client, or a new one built from the session
get_client(cl, ck, tok) ==
    IF cl.open THEN cl ELSE [open |-> TRUE, cookies |-> ck, csrf |-> tok]

\* core/auth.py load_cached_tokens: the default profile first, then auth.json
load_cached_tokens ==
    IF profile.exists THEN profile
    ELSE IF authJson.exists THEN authJson
    ELSE NoFile

\* the items of a batchexecute answer
SuccessItem(rpc_id, v) == MkItem(TRUE, 7, "wrb.fr", rpc_id, StrJson(v), FALSE, {}, "generic")
Error16Item(rpc_id) == MkItem(TRUE, 7, "wrb.fr", rpc_id, Null, TRUE, {16}, "generic")

\* what the server sends with status 200: the result v of the rpc, an error
\* 16 for it, or an error 16 for another rpc ahead of the result
ServerAnswers ==
    [kind : {"result", "foreign16"}, v : {"payload1", "payload2"}]
    \cup [kind : {"error16"}, v : {""}]

\* the parsed body of an answer
BodyOf(ans) ==
    IF ans.kind = "result" THEN <<ListChunk(<<SuccessItem(RpcId, ans.v)>>)>>
    ELSE IF ans.kind = "error16" THEN <<ListChunk(<<Error16Item(RpcId)>>)>>
    ELSE <<ListChunk(<<Error16Item(OtherRpcId)>>),
           ListChunk(<<SuccessItem(RpcId, ans.v)>>)>>

\* the page _refresh_auth_tokens fetches: the final URL is on the login host
\* or not, the status, and the tokens the two regular expressions find
Pages ==
    [redirect : {TRUE}, status : {200}, csrf : {""}, sid : {""}]
    \cup [redirect : {FALSE}, status : {200, 500}, csrf : {""}, sid : {""}]
    \cup [redirect : {FALSE}, status : {200}, csrf : PageTokens, sid : SessionIds \cup {""}]

\* what run_headless_auth returns: None, or the tokens it extracted and saved
HeadlessResults ==
    {NoFile} \cup {TokenFile(CookiesHeadless, t, "sid1") : t \in PageTokens \cup {""}}

\* the history of the originating call
NoHist ==
    [posts |-> 0, sleeps |-> 0, nRefresh |-> 0, nReload |-> 0,
     nAuth |-> 0, disk |-> "unchecked", headless |-> FALSE,
     firstStatus |-> 0, lastStatus |-> 0, scraped |-> "",
     sent |-> "", bodyCsrf |-> "", urlSid |-> "", afterReload |-> FALSE]

NoOutcome == [kind |-> "none", status |-> 0, val |-> NotCalled]

Frame(retry, deep, srv) == [retry |-> retry, deep |-> deep, srv |-> srv]
Top == stack[Len(stack)]

-----------------------------------------------------------------------------
(* core/base.py: _call_rpc and the recovery layers *)

notRpc == <<retryVars, extractVars, parseVars, laterVars>>

\* the test with the bound included
ServerRetryAllowed_inclusive(frame) == frame.srv <= DEFAULT_MAX_RETRIES

\* `if _server_retry < DEFAULT_MAX_RETRIES`
ServerRetryAllowed(frame) == frame.srv < DEFAULT_MAX_RETRIES

\* `is_http_auth = e.response.status_code in (401, 403)`
is_http_auth(status) == status \in {401, 403}

\* the layer-1 test inverted
Layer1Open_inverted(frame) == frame.retry

\* `if not _retry`: layer 1 is open to this frame
Layer1Open(frame) == ~frame.retry

\* `if not _deep_retry`: layers 2 and 3 are open to this frame
Layer2Open(frame) == ~frame.deep

\* the recursive calls: after a backoff sleep, after a token refresh, after
\* _try_reload_or_headless_auth returned True
ServerRetryFrame(frame) == Frame(frame.retry, frame.deep, frame.srv + 1)
\* the retry after a refresh made without _retry=True
RefreshRetryFrame_noFlag == Frame(FALSE, FALSE, 0)
RefreshRetryFrame == Frame(TRUE, FALSE, 0)
DeepRetryFrame == Frame(TRUE, TRUE, 0)

\* `cache_path.exists()` and `cached and cached.cookies`
CacheUsable ==
    /\ authJson.exists
    /\ load_cached_tokens.exists
    /\ load_cached_tokens.cookies # ""

\* a refresh that scrapes the token and leaves the old one in place
ScrapedCsrf_stale(page) == csrf_token

\* `self.csrf_token = csrf_match.group(1)`: the token the page carries
ScrapedCsrf(page) == page.csrf

\* _update_cached_tokens: the cached tokens with the new csrf and session id,
\* or new ones from the session's cookies, written to auth.json; a failure to
\* write is swallowed
update_cached_tokens(tok, sid, saved) ==
    IF ~saved THEN authJson
    ELSE IF load_cached_tokens.exists
         THEN TokenFile(load_cached_tokens.cookies, tok, sid)
         ELSE TokenFile(cookies, tok, sid)

\* a refresh that writes the token cache before it finds that the page is
\* unusable
CacheAfterFailedRefresh_written == update_cached_tokens(csrf_token, session_id, TRUE)

\* the three `raise ValueError` of _refresh_auth_tokens come before
\* `self._update_cached_tokens()`: auth.json is as it was
CacheAfterFailedRefresh == authJson

\* the response's status is noted in the history; of the first response it is
\* kept when it is an authentication failure
Noted(status) ==
    [hist EXCEPT !.lastStatus = status,
                 !.firstStatus = IF hist.posts = 1 /\ is_http_auth(status)
                                 THEN status ELSE @]

\* a frame of _call_rpc is entered: client, body and url are built from the
\* session as it is now (ck, tok, sid) and the request is posted
Enter(frame, ck, tok, sid, cl, h) ==
    /\ stack' = Append(stack, frame)
    /\ client' = get_client(cl, ck, tok)
    /\ hist' = [h EXCEPT !.posts = @ + 1, !.bodyCsrf = tok, !.urlSid = sid]
    /\ pc' = "post"
    /\ outcome' = outcome

\* an exception leaves _call_rpc: no frame of it catches these
Raise(kind, status, h) ==
    /\ stack' = <<>>
    /\ pc' = "done"
    /\ outcome' = [kind |-> kind, status |-> status, val |-> NotCalled]
    /\ hist' = h
    /\ client' = client

\* `return result`, through every frame
Return(r, h) ==
    /\ stack' = <<>>
    /\ pc' = "done"
    /\ outcome' = [kind |-> "returned", status |-> 200, val |-> r]
    /\ hist' = h
    /\ client' = client

\* the frame at position i was called from inside the `try` of layer 1: it is
\* the retry after a refresh (neither a backoff retry nor the deep retry)
CalledInTry(i) == i > 1 /\ stack[i].srv = 0 /\ ~stack[i].deep

\* the innermost frame at or below position i that was called from inside the
\* `try` of layer 1, or 0 when there is none
RECURSIVE Catcher(_)
Catcher(i) ==
    IF i <= 1 THEN 0
    ELSE IF CalledInTry(i) THEN i
    ELSE Catcher(i - 1)

\* a ValueError leaves the frame on top: it passes through the backoff and
\* deep retries, and `except ValueError` of layer 1 catches it in the frame
\* that called the retry after the refresh; that frame goes on to layers 2
\* and 3
RaiseValueError(h) ==
    LET i == Catcher(Len(stack))
    IN IF i = 0
       THEN Raise("ValueError", 200, h)
       ELSE IF Layer2Open(stack[i - 1])
       THEN /\ stack' = SubSeq(stack, 1, i - 1)
            /\ pc' = "reload"
            /\ hist' = h
            /\ UNCHANGED <<outcome, client>>
       ELSE Raise("AuthenticationError", 0, h)

\* the code after the except clauses: the first open layer, or the terminal error
AuthRecovery(h) ==
    LET g == [h EXCEPT !.nAuth = @ + 1]
    IN IF Layer1Open(Top)
       THEN /\ pc' = "refresh"
            /\ hist' = g
            /\ UNCHANGED <<stack, outcome, client>>
       ELSE IF Layer2Open(Top)
       THEN /\ pc' = "reload"
            /\ hist' = g
            /\ UNCHANGED <<stack, outcome, client>>
       ELSE Raise("AuthenticationError", 0, g)

\* the public call: the first frame, with _retry, _deep_retry and
\* _server_retry at their defaults
CallRpc ==
    /\ pc \in {"idle", "done"}
    /\ stack' = <<Frame(FALSE, FALSE, 0)>>
    /\ client' = get_client(client, cookies, csrf_token)
    /\ hist' = [NoHist EXCEPT !.posts = 1, !.bodyCsrf = csrf_token,
                              !.urlSid = session_id]
    /\ outcome' = NoOutcome
    /\ pc' = "post"
    /\ UNCHANGED <<cookies, csrf_token, session_id, profile, authJson, notRpc>>

\* the server answers 200: the result is extracted, and an error 16 in the
\* body goes to auth recovery
PostOk ==
    /\ pc = "post"
    /\ \E ans \in ServerAnswers :
          LET r == extract_rpc_result(BodyOf(ans), RpcId)
              h == [Noted(200) EXCEPT !.sent = ans.v]
          IN IF r.raised THEN AuthRecovery(h) ELSE Return(r, h)
    /\ UNCHANGED <<cookies, csrf_token, session_id, profile, authJson, notRpc>>

\* the server answers with an error status: raise_for_status raises
PostStatusError ==
    /\ pc = "post"
    /\ \E status \in StatusCodes \ {200} :
          IF is_retryable_error(status)
          THEN IF ServerRetryAllowed(Top)
               THEN Enter(ServerRetryFrame(Top), cookies, csrf_token, session_id,
                          client, [Noted(status) EXCEPT !.sleeps = @ + 1])
               ELSE Raise("HTTPStatusError", status, Noted(status))
          ELSE IF is_http_auth(status)
               THEN AuthRecovery(Noted(status))
               ELSE Raise("HTTPStatusError", status, Noted(status))
    /\ UNCHANGED <<cookies, csrf_token, session_id, profile, authJson, notRpc>>

\* the server answers 200 and the payload holds an integer literal longer than
\* the interpreter's limit for integer conversion: json.loads raises a
\* ValueError that is not a JSONDecodeError, so it leaves _extract_rpc_result
\* and the frame
PostOverlongInteger ==
    /\ pc = "post"
    /\ RaiseValueError(Noted(200))
    /\ UNCHANGED <<cookies, csrf_token, session_id, profile, authJson, notRpc>>

\* the request fails below HTTP (connection, timeout): the error propagates
PostTransportError ==
    /\ pc = "post"
    /\ Raise("RequestError", 0, Noted(-1))
    /\ UNCHANGED <<cookies, csrf_token, session_id, profile, authJson, notRpc>>

\* layer 1: _refresh_auth_tokens, then the retry with _retry=True
RefreshAuthTokens ==
    /\ pc = "refresh"
    /\ \E page \in Pages, saved \in BOOLEAN :
          LET h == [hist EXCEPT !.nRefresh = @ + 1]
              sid == IF page.sid # "" THEN page.sid ELSE session_id
          IN IF page.redirect \/ page.status # 200 \/ page.csrf = ""
             THEN \* ValueError: caught, on to layers 2 and 3
                  /\ IF Layer2Open(Top)
                     THEN /\ pc' = "reload"
                          /\ hist' = h
                          /\ UNCHANGED <<stack, outcome, client>>
                     ELSE Raise("AuthenticationError", 0, h)
                  /\ authJson' = CacheAfterFailedRefresh
                  /\ UNCHANGED <<csrf_token, session_id>>
             ELSE /\ csrf_token' = ScrapedCsrf(page)
                  /\ session_id' = sid
                  /\ authJson' = update_cached_tokens(ScrapedCsrf(page), sid, saved)
                  /\ Enter(RefreshRetryFrame, cookies, ScrapedCsrf(page), sid, NoClient,
                           [h EXCEPT !.scraped = page.csrf])
    /\ UNCHANGED <<cookies, profile, notRpc>>

\* layers 2 and 3: _try_reload_or_headless_auth, then the retry with
\* _retry=True, _deep_retry=True, or the terminal error
TryReloadOrHeadlessAuth ==
    /\ pc = "reload"
    /\ LET h == [hist EXCEPT !.nReload = @ + 1]
       IN IF CacheUsable
          THEN /\ cookies' = load_cached_tokens.cookies
               /\ csrf_token' = ""
               /\ session_id' = ""
               /\ authJson' = authJson
               /\ Enter(DeepRetryFrame, load_cached_tokens.cookies, "", "", NoClient,
                        [h EXCEPT !.disk = "usable", !.afterReload = TRUE])
          ELSE \E tokens \in HeadlessResults :
                  LET g == [h EXCEPT !.disk = "unusable", !.headless = TRUE]
                  IN IF tokens.exists
                     THEN /\ cookies' = tokens.cookies
                          /\ csrf_token' = tokens.csrf
                          /\ session_id' = tokens.sid
                          /\ authJson' = tokens
                          /\ Enter(DeepRetryFrame, tokens.cookies, tokens.csrf,
                                   tokens.sid, NoClient, g)
                     ELSE /\ Raise("AuthenticationError", 0, g)
                          /\ UNCHANGED <<cookies, csrf_token, session_id, authJson>>
    /\ UNCHANGED <<profile, notRpc>>

\* the other machines at rest
IdleRetry ==
    /\ rMax = 0 /\ rPlan = <<>> /\ rAttempt = 0 /\ rCalls = 0
    /\ rDelays = <<>> /\ rOutcome = "idle" /\ rValue = [status |-> 0, val |-> ""]
IdleExtract == xParsed = <<>> /\ xRpcId = "" /\ xOut = NotCalled
IdleParse ==
    /\ pText = [pfx |-> FALSE, lines |-> <<>>]
    /\ pOut = [done |-> FALSE, raised |-> FALSE, results |-> <<>>]
IdleBuild ==
    /\ bIn = [rpc_id |-> <<>>, params |-> [t |-> "null"], csrf |-> <<>>]
    /\ bOut = [done |-> FALSE, body |-> <<>>]
\* a path with no file, and a file with its chunks
Absent == [exists |-> FALSE, data |-> <<>>]
FileOf(data) == [exists |-> TRUE, data |-> data]
NoDownload ==
    [pc |-> "idle", html |-> FALSE, body |-> <<>>, written |-> 0, result |-> "none",
     cause |-> "none", midTransfer |-> FALSE, destBefore |-> Absent,
     failedBefore |-> FALSE]
IdleDownload == dFs = [dest |-> Absent, tmp |-> Absent] /\ dCall = NoDownload
NoUpload ==
    [pc |-> "idle", net |-> <<>>, source_id |-> "", upload_url |-> "", result |-> "none"]
IdleUpload ==
    /\ uFile = [kind |-> "missing", size |-> 0, ext |-> "", wait |-> FALSE]
    /\ uCall = NoUpload
\* the arguments of the artifact parsers when none is called
NoArtifact ==
    [op |-> "none", raw |-> [depth |-> 0, rows |-> <<>>], validate |-> TRUE,
     maps |-> <<>>, artifact_id |-> "", html |-> <<>>]
NotParsed == [done |-> FALSE, raised |-> "", value |-> <<>>]
IdleArtifact == aIn = NoArtifact /\ aOut = NotParsed
\* none of the operations modelled further down has been called
\* wait_for_source_ready when it is not called
NoWait == [pc |-> "idle", elapsed |-> 0, polls |-> <<>>, result |-> "none"]
IdleWait == wIn = [timeout |-> 0, poll_interval |-> 0] /\ wCall = NoWait
\* the arguments of the MCP tools when none is called
NoTool ==
    [tool |-> "none", action |-> "", note_id |-> "", artifact_type |-> "",
     confirm |-> FALSE, client |-> "ok", service |-> "ok"]
NotReturned == [done |-> FALSE, status |-> "", calls |-> <<>>]
IdleTool == tIn = NoTool /\ tOut = NotReturned
\* the service functions when none is called
NoService ==
    [op |-> "none", artifact_type |-> "", output_format |-> "", client |-> "",
     sources |-> "", options |-> "", description |-> ""]
NotServed == [done |-> FALSE, raised |-> "", calls |-> <<>>, value |-> ""]
IdleService == sIn = NoService /\ sOut = NotServed
\* no registration response
NoRegister == [t |-> "none", s |-> <<>>, n |-> 0, items |-> <<>>]
NotRegistered == [done |-> FALSE, raised |-> "", value |-> <<>>]
IdleRegister == gIn = NoRegister /\ gOut = NotRegistered
\* delete_mind_map when it is not called
NoMind == [list |-> <<>>, mind_map_id |-> ""]
NotDeleting == [pc |-> "idle", rpcs |-> <<>>, timestamp |-> "none", result |-> "none"]
IdleMind == mIn = NoMind /\ mCall = NotDeleting
\* no download to the shared path
NoDisk == [tmp |-> 0, dest |-> 0, files |-> <<>>]
IdleRace == cFs = NoDisk /\ cProc = <<>>
IdleTail == IdleService /\ IdleRegister /\ IdleMind /\ IdleRace
IdleMid ==
    /\ IdleBuild /\ IdleDownload /\ IdleUpload /\ IdleArtifact
    /\ IdleWait /\ IdleTool
IdleLater == IdleMid /\ IdleTail
\* none of the protocol functions has been called
IdleRpc ==
    /\ pc = "idle" /\ stack = <<>> /\ cookies = "" /\ csrf_token = ""
    /\ session_id = "" /\ client = NoClient /\ profile = NoFile
    /\ authJson = NoFile /\ hist = NoHist /\ outcome = NoOutcome

\* the disk as a run may find it: no file, a file with cookies, a file whose
\* cookie dict is empty
DiskFiles ==
    {NoFile, TokenFile(CookiesDisk, "", ""), TokenFile("", "", ""),
     TokenFile(CookiesDisk, "tok1", "sid1")}

\* after BaseClient.__init__: a CSRF token is set (given, or scraped by the
\* constructor's refresh), the session id may be missing, no client is open
Init ==
    /\ pc = "idle"
    /\ stack = <<>>
    /\ cookies = CookiesInit
    /\ csrf_token \in PageTokens
    /\ session_id \in SessionIds \cup {""}
    /\ client = NoClient
    /\ profile \in DiskFiles
    /\ authJson \in DiskFiles
    /\ hist = NoHist
    /\ outcome = NoOutcome
    /\ IdleRetry /\ IdleExtract /\ IdleParse /\ IdleLater

Next ==
    \/ CallRpc
    \/ PostOk
    \/ PostStatusError
    \/ PostOverlongInteger
    \/ PostTransportError
    \/ RefreshAuthTokens
    \/ TryReloadOrHeadlessAuth

Spec == Init /\ [][Next]_vars

\* the steps of a call in progress: _call_rpc is synchronous code, the POST
\* and the page fetch carry a timeout, so a call that has a next step takes it
Step ==
    \/ PostOk
    \/ PostStatusError
    \/ PostOverlongInteger
    \/ PostTransportError
    \/ RefreshAuthTokens
    \/ TryReloadOrHeadlessAuth

\* one originating call: the public call is made once, from the state after
\* construction, and runs to its end
FirstCall == pc = "idle" /\ CallRpc

NextOneCall ==
    \/ FirstCall
    \/ Step

\* the session of a client after login, and on disk one case of each kind the
\* recovery layers tell apart: no default profile or one without cookies, no
\* auth.json or one with cookies
InitOneCall ==
    /\ Init
    /\ csrf_token = "tok1"
    /\ session_id = "sid1"
    /\ profile \in {NoFile, TokenFile("", "", "")}
    /\ authJson \in {NoFile, TokenFile(CookiesDisk, "tok1", "sid1")}

SpecOneCall == InitOneCall /\ [][NextOneCall]_vars /\ WF_vars(Step)

-----------------------------------------------------------------------------
(* core/retry.py: execute_with_retry *)

notRetry == <<rpcVars, extractVars, parseVars, laterVars>>

\* what one invocation of func does: return val (status 200), raise an
\* HTTPStatusError with a status, or raise some other exception (status -1)
FuncReturns(v) == [status |-> 200, val |-> v]
FuncRaises(status) == [status |-> status, val |-> ""]
FuncOutcomes ==
    {FuncReturns(v) : v \in {"success", "other"}}
    \cup {FuncRaises(st) : st \in (StatusCodes \ {200}) \cup {-1}}

\* the plans of func: its outcomes invocation by invocation, the last one
\* repeated for good (as Mock(side_effect=exc) does); every outcome before
\* the last is an HTTPStatusError
FuncPlans(n) ==
    UNION {{p \in [1..len -> FuncOutcomes] :
                \A i \in 1..(len - 1) : p[i].status \notin {200, -1}} : len \in 1..n}

\* the outcome of the i-th invocation of func
FuncCall(i) == rPlan[Min(i, Len(rPlan))]

\* an off-by-one in the last-attempt test
LastAttempt_early(attempt, max_retries) == attempt = max_retries - 1

\* `attempt == max_retries`
LastAttempt(attempt, max_retries) == attempt = max_retries

\* `delay = min(base_delay * (2 ** attempt), max_delay)` with the defaults
RetryDelay(attempt) == BackoffDelay(attempt)

\* `for attempt in range(max_retries + 1)` has an iteration left
InLoop == rOutcome = "running" /\ rAttempt <= rMax

\* `return func(*args, **kwargs)`
RetryFuncReturns ==
    /\ InLoop
    /\ FuncCall(rCalls + 1).status = 200
    /\ rCalls' = rCalls + 1
    /\ rOutcome' = "returned"
    /\ rValue' = FuncCall(rCalls + 1)
    /\ UNCHANGED <<rMax, rPlan, rAttempt, rDelays, notRetry>>

\* `except httpx.HTTPStatusError as e`: raise, or sleep and go round again
RetryFuncRaisesStatus ==
    /\ InLoop
    /\ FuncCall(rCalls + 1).status \notin {200, -1}
    /\ rCalls' = rCalls + 1
    /\ IF ~is_retryable_error(FuncCall(rCalls + 1).status) \/ LastAttempt(rAttempt, rMax)
       THEN /\ rOutcome' = "raised"
            /\ rValue' = FuncCall(rCalls + 1)
            /\ UNCHANGED <<rAttempt, rDelays>>
       ELSE /\ rDelays' = Append(rDelays, RetryDelay(rAttempt))
            /\ rAttempt' = rAttempt + 1
            /\ UNCHANGED <<rOutcome, rValue>>
    /\ UNCHANGED <<rMax, rPlan, notRetry>>

\* an exception that is no HTTPStatusError is not caught
RetryFuncRaisesOther ==
    /\ InLoop
    /\ FuncCall(rCalls + 1).status = -1
    /\ rCalls' = rCalls + 1
    /\ rOutcome' = "raised"
    /\ rValue' = FuncCall(rCalls + 1)
    /\ UNCHANGED <<rMax, rPlan, rAttempt, rDelays, notRetry>>

InitRetry ==
    /\ rMax \in 0..MaxRetriesArg
    /\ rPlan \in FuncPlans(rMax + 1)
    /\ rAttempt = 0
    /\ rCalls = 0
    /\ rDelays = <<>>
    /\ rOutcome = "running"
    /\ rValue = [status |-> 0, val |-> ""]
    /\ IdleRpc /\ IdleExtract /\ IdleParse /\ IdleLater

\* (`raise last_exception` after the loop is reached only when max_retries
\* is negative and the loop has no iteration)
NextRetry ==
    \/ RetryFuncReturns
    \/ RetryFuncRaisesStatus
    \/ RetryFuncRaisesOther

\* the loop is sequential code: it goes on while it can
SpecRetry == InitRetry /\ [][NextRetry]_vars /\ WF_vars(NextRetry)

-----------------------------------------------------------------------------
(* core/base.py: _extract_rpc_result on its own *)

notExtract == <<rpcVars, retryVars, parseVars, laterVars>>

\* the items a chunk may hold: results and error 16 for either rpc, another
\* error code, a three-element item with a string that is no JSON, an item
\* that ends before position 6, one whose tag at [6] differs, an item that
\* is no wrb.fr item, and an element that is no list
ExtractItems ==
    {SuccessItem(RpcId, "payload1"),
     SuccessItem(OtherRpcId, "payload2"),
     Error16Item(RpcId),
     Error16Item(OtherRpcId),
     MkItem(TRUE, 7, "wrb.fr", RpcId, Null, TRUE, {3}, "generic"),
     MkItem(TRUE, 3, "wrb.fr", RpcId, StrRaw("text"), FALSE, {}, ""),
     MkItem(TRUE, 6, "wrb.fr", RpcId, Null, TRUE, {16}, ""),
     MkItem(TRUE, 7, "wrb.fr", OtherRpcId, Null, TRUE, {16}, "other"),
     MkItem(TRUE, 2, "di", "", Null, FALSE, {}, ""),
     MkItem(FALSE, 0, "", "", Null, FALSE, {}, "")}

\* a parsed response: the items in one chunk, or split at k over two chunks,
\* with or without a chunk that is no list between them
ParsedResponse(its, k, shape) ==
    IF shape = "one" THEN <<ListChunk(its)>>
    ELSE IF shape = "two"
         THEN <<ListChunk(SubSeq(its, 1, k)), ListChunk(SubSeq(its, k + 1, Len(its)))>>
         ELSE <<ListChunk(SubSeq(its, 1, k)), ScalarChunk,
                ListChunk(SubSeq(its, k + 1, Len(its)))>>

\* the call: _extract_rpc_result(parsed_response, rpc_id)
ExtractRpcResult ==
    /\ ~xOut.done
    /\ xOut' = extract_rpc_result(xParsed, xRpcId)
    /\ UNCHANGED <<xParsed, xRpcId, notExtract>>

InitExtract ==
    /\ \E len \in 0..MaxItems :
          \E its \in [1..len -> ExtractItems], k \in 0..len,
             shape \in {"one", "two", "three"} :
                xParsed = ParsedResponse(its, k, shape)
    /\ xRpcId \in {RpcId, OtherRpcId}
    /\ xOut = NotCalled
    /\ IdleRpc /\ IdleRetry /\ IdleParse /\ IdleLater

NextExtract == ExtractRpcResult

SpecExtract == InitExtract /\ [][NextExtract]_vars

-----------------------------------------------------------------------------
(* core/base.py: _parse_response *)

notParse == <<rpcVars, retryVars, extractVars, laterVars>>

\* A line of the response text, by what int() and json.loads make of it:
\*   blank   empty or white space
\*   count   decimal digits: an int, and a JSON number as well
\*   signed  an int to int() ("+12") that is no JSON
\*   json1, json2  two JSON arrays
\*   bad     neither an int nor JSON
\*   deep    brackets nested beyond the interpreter's recursion limit, on
\*           which json.loads raises RecursionError
LineKinds == {"blank", "count", "signed", "json1", "json2", "bad", "deep"}

\* A response text: whether it starts with the prefix )]}' and the lines that
\* follow it (the first of them on the line of the prefix)
Texts(n) == [pfx : BOOLEAN, lines : UNION {[1..len -> LineKinds] : len \in 1..n}]

\* the prefix test that never matches
strip_prefix_never(text) == text

\* `if response_text.startswith(")]}'"): response_text = response_text[4:]`
strip_prefix(text) == IF text.pfx THEN [text EXCEPT !.pfx = FALSE] ELSE text

\* the lines of a text; a prefix left in place makes its line neither blank,
\* nor an int, nor JSON
LinesOf(text) ==
    [i \in 1..Len(text.lines) |-> IF i = 1 /\ text.pfx THEN "bad" ELSE text.lines[i]]

\* str.strip() on the whole text, in lines: blank lines go from both ends
RECURSIVE lstrip(_)
lstrip(lines) ==
    IF lines # <<>> /\ Head(lines) = "blank" THEN lstrip(Tail(lines)) ELSE lines

RECURSIVE rstrip(_)
rstrip(lines) ==
    IF lines # <<>> /\ lines[Len(lines)] = "blank"
    THEN rstrip(SubSeq(lines, 1, Len(lines) - 1))
    ELSE lines

\* `response_text.strip().split("\n")`: an empty text splits into one empty line
strip_split(lines) ==
    IF rstrip(lstrip(lines)) = <<>> THEN <<"blank">> ELSE rstrip(lstrip(lines))

\* `int(line)` does not raise ValueError
IsByteCount(kind) == kind \in {"count", "signed"}

\* `json.loads(line)` returns a value
IsJson(kind) == kind \in {"count", "json1", "json2"}

\* a handler that catches every exception of json.loads
Escapes_none(kind) == FALSE

\* `except json.JSONDecodeError: pass` lets any other exception of json.loads
\* out of _parse_response
Escapes(kind) == kind = "deep"

\* what json.loads returns
JsonValue(kind) ==
    IF kind = "json1" THEN "array1"
    ELSE IF kind = "json2" THEN "array2"
    ELSE "number"

\* results.append(data) when the line decodes, `pass` when it does not
Decoded(results, kind) ==
    IF IsJson(kind) THEN Append(results, JsonValue(kind)) ELSE results

\* a payload test that looks one line past the end
HasLine_pastEnd(lines, i) == i <= Len(lines) + 1

\* `if i < len(lines)` (positions from 1 here)
HasLine(lines, i) == i <= Len(lines)

\* a parser that takes the line after a byte count for part of the count
AfterPayload_skipped(results, kind) == results

\* the line after a byte count: `data = json.loads(json_str)`, appended
AfterPayload(results, kind) == Decoded(results, kind)

\* the loop `while i < len(lines)`; reading lines[i] past the end is an
\* IndexError, which like RecursionError is no ValueError and is not caught
RECURSIVE ParseLines(_, _, _)
ParseLines(lines, i, results) ==
    IF i > Len(lines) THEN [done |-> TRUE, raised |-> FALSE, results |-> results]
    ELSE IF lines[i] = "blank" THEN ParseLines(lines, i + 1, results)
    ELSE IF IsByteCount(lines[i])
         THEN IF HasLine(lines, i + 1)
              THEN IF i + 1 > Len(lines)
                   THEN [done |-> TRUE, raised |-> TRUE, results |-> results]
                   ELSE IF Escapes(lines[i + 1])
                        THEN [done |-> TRUE, raised |-> TRUE, results |-> results]
                        ELSE ParseLines(lines, i + 2,
                                        AfterPayload(results, lines[i + 1]))
              ELSE ParseLines(lines, i + 2, results)
         ELSE IF Escapes(lines[i])
              THEN [done |-> TRUE, raised |-> TRUE, results |-> results]
              ELSE ParseLines(lines, i + 1, Decoded(results, lines[i]))

parse_response(text) == ParseLines(strip_split(LinesOf(strip_prefix(text))), 1, <<>>)

\* the call: _parse_response(response_text)
ParseResponse ==
    /\ ~pOut.done
    /\ pOut' = parse_response(pText)
    /\ UNCHANGED <<pText, notParse>>

InitParse ==
    /\ pText \in Texts(MaxLines)
    /\ pOut = [done |-> FALSE, raised |-> FALSE, results |-> <<>>]
    /\ IdleRpc /\ IdleRetry /\ IdleExtract /\ IdleLater

NextParse == ParseResponse

SpecParse == InitParse /\ [][NextParse]_vars

-----------------------------------------------------------------------------
(* core/base.py: _build_request_body *)

\* Text is a sequence of characters, each a one-character string; "LF" stands
\* for a line feed and "U+00E9" for a character outside ASCII.

notBuild == <<coreVars, downloadVars, uploadVars, artifactVars, waitVars, toolVars,
    tailVars>>

\* a JSON value as Python holds it: None, bool, int, str, list
JsonVal(t, s, n, items) == [t |-> t, s |-> s, n |-> n, items |-> items]
JNull == JsonVal("null", <<>>, 0, <<>>)
JBool(b) == JsonVal("bool", <<>>, IF b THEN 1 ELSE 0, <<>>)
JInt(n) == JsonVal("int", <<>>, n, <<>>)
JStr(s) == JsonVal("str", s, 0, <<>>)
JList(items) == JsonVal("list", <<>>, 0, items)

DigitChars == <<"0", "1", "2", "3", "4", "5", "6", "7", "8", "9">>

\* str(n) for an int
RECURSIVE IntText(_)
IntText(n) ==
    IF n < 0 THEN <<"-">> \o IntText(0 - n)
    ELSE IF n < 10 THEN <<DigitChars[n + 1]>>
    ELSE IntText(n \div 10) \o <<DigitChars[(n % 10) + 1]>>

\* json.dumps of one character of a str (ensure_ascii is the default)
EscapeChar(c) ==
    IF c = "\"" THEN <<"\\", "\"">>
    ELSE IF c = "\\" THEN <<"\\", "\\">>
    ELSE IF c = "LF" THEN <<"\\", "n">>
    ELSE IF c = "U+00E9" THEN <<"\\", "u", "0", "0", "e", "9">>
    ELSE <<c>>

RECURSIVE EscapeText(_)
EscapeText(s) ==
    IF s = <<>> THEN <<>> ELSE EscapeChar(Head(s)) \o EscapeText(Tail(s))

\* json.dumps(value, separators=(',', ':'))
RECURSIVE json_dumps(_)
RECURSIVE DumpItems(_)
DumpItems(items) ==
    IF items = <<>> THEN <<>>
    ELSE IF Len(items) = 1 THEN json_dumps(items[1])
    ELSE json_dumps(items[1]) \o <<",">> \o DumpItems(Tail(items))

json_dumps(v) ==
    IF v.t = "null" THEN <<"n", "u", "l", "l">>
    ELSE IF v.t = "bool"
         THEN (IF v.n = 1 THEN <<"t", "r", "u", "e">> ELSE <<"f", "a", "l", "s", "e">>)
    ELSE IF v.t = "int" THEN IntText(v.n)
    ELSE IF v.t = "str" THEN <<"\"">> \o EscapeText(v.s) \o <<"\"">>
    ELSE <<"[">> \o DumpItems(v.items) \o <<"]">>

\* the characters urllib.parse.quote never encodes
Unreserved ==
    {"a", "b", "c", "e", "f", "g", "i", "l", "n", "p", "q", "r", "s", "t", "u",
     "A", "B", "0", "1", "2", "3", "4", "5", "6", "7", "8", "9",
     "_", ".", "-", "~"}

\* the other ASCII characters of the model and their codes
PercentCodes ==
    {<<"\"", "2", "2">>, <<"\\", "5", "C">>, <<"[", "5", "B">>, <<"]", "5", "D">>,
     <<",", "2", "C">>, <<"&", "2", "6">>, <<"%", "2", "5">>, <<"/", "2", "F">>,
     <<"=", "3", "D">>, <<" ", "2", "0">>, <<":", "3", "A">>}

PercentCode(c) == CHOOSE code \in PercentCodes : code[1] = c

\* quote(..., safe='/'), the default of urllib.parse.quote, with '&' safe too
QuoteChar_safeAmp(c) ==
    IF c \in Unreserved \cup {"/", "&"} THEN <<c>>
    ELSE <<"%", PercentCode(c)[2], PercentCode(c)[3]>>

\* urllib.parse.quote(c, safe='')
QuoteChar(c) ==
    IF c \in Unreserved THEN <<c>>
    ELSE <<"%", PercentCode(c)[2], PercentCode(c)[3]>>

RECURSIVE quote(_)
quote(s) == IF s = <<>> THEN <<>> ELSE QuoteChar(Head(s)) \o quote(Tail(s))

\* the wrapping that puts params itself, not its JSON text, in the envelope
f_req_unencoded(rpc_id, params) ==
    JList(<<JList(<<JList(<<JStr(rpc_id), params, JNull, JStr(<<"g", "e", "n", "e", "r", "i", "c">>)>>)>>)>>)

\* `f_req = [[[rpc_id, params_json, None, "generic"]]]`
f_req(rpc_id, params) ==
    JList(<<JList(<<JList(<<JStr(rpc_id), JStr(json_dumps(params)), JNull,
                            JStr(<<"g", "e", "n", "e", "r", "i", "c">>)>>)>>)>>)

\* body_parts joined with "&", and the trailing "&"
build_request_body(rpc_id, params, csrf) ==
    <<"f", ".", "r", "e", "q", "=">> \o quote(json_dumps(f_req(rpc_id, params)))
    \o (IF csrf # <<>> THEN <<"&", "a", "t", "=">> \o quote(csrf) ELSE <<>>)
    \o <<"&">>

\* rpc ids, one of them with characters that need escaping
BuildRpcIds == {<<"r", "p", "c">>, <<"a", "B", "1">>, <<"a", "\"", "&">>}

\* self.csrf_token: empty, or a token with characters that need quoting
BuildCsrfTokens == {<<>>, <<"A", "B", ":", "1">>, <<"a", "&", "=", "/", "%">>}

\* the elements of params
ParamAtoms ==
    {JNull, JBool(TRUE), JInt(0), JInt(12), JInt(-3),
     JStr(<<>>), JStr(<<"a", "b">>), JStr(<<"\"", "\\">>), JStr(<<"\\", "n">>),
     JStr(<<"&", "a", "t", "=">>), JStr(<<"%", "2", "6", "/">>),
     JStr(<<"U+00E9", "LF", " ">>), JStr(<<"n", "u", "l", "l">>),
     JStr(<<"[", "]", ",", ":">>)}

ParamInner == {JList(<<>>), JList(<<JInt(1)>>), JList(<<JStr(<<"\"">>), JNull>>)}

\* params: a list of atoms and lists
BuildParams(n) ==
    {JList(items) : items \in UNION {[1..len -> ParamAtoms \cup ParamInner] : len \in 0..n}}

\* the call: body = self._build_request_body(rpc_id, params)
BuildRequestBody ==
    /\ ~bOut.done
    /\ bOut' = [done |-> TRUE, body |-> build_request_body(bIn.rpc_id, bIn.params, bIn.csrf)]
    /\ UNCHANGED <<bIn, notBuild>>

InitBuild ==
    /\ bIn \in [rpc_id : BuildRpcIds, params : BuildParams(MaxParams), csrf : BuildCsrfTokens]
    /\ bOut = [done |-> FALSE, body |-> <<>>]
    /\ IdleRpc /\ IdleRetry /\ IdleExtract /\ IdleParse /\ IdleDownload /\ IdleUpload
    /\ IdleArtifact /\ IdleWait /\ IdleTool /\ IdleTail

NextBuild == BuildRequestBody

SpecBuild == InitBuild /\ [][NextBuild]_vars

-----------------------------------------------------------------------------
(* core/download.py: _download_url *)

notDownload == <<coreVars, buildVars, uploadVars, artifactVars, waitVars, toolVars,
    tailVars>>

\* the chunks of a response body: "login" holds a login-page marker
\* (<!doctype html> or "sign in"), "a" and "b" do not
DownloadBodies == UNION {[1..len -> {"login", "a", "b"}] : len \in 0..MaxChunks}

\* `b"<!doctype html>" in first_chunk.lower() or b"sign in" in first_chunk.lower()`;
\* first_chunk is b"" for an empty body
IsLoginPage(body) == body # <<>> /\ body[1] = "login"

\* what the first `async for ... break` reads: one chunk, b"" for an empty body
FirstChunk(body) == IF body = <<>> THEN <<>> ELSE <<body[1]>>

\* handlers that let AuthenticationError through
RaisedAs_authPassed(cause) ==
    IF cause = "AuthenticationError" THEN "AuthenticationError" ELSE "ArtifactDownloadError"

\* `except httpx.HTTPError` and `except Exception` both raise
\* ArtifactDownloadError; AuthenticationError is caught as an Exception
RaisedAs(cause) == "ArtifactDownloadError"

\* a cleanup that leaves the temp file
TempAfterFailure_kept(tmp) == tmp

\* `if temp_file.exists(): temp_file.unlink()`
TempAfterFailure(tmp) == Absent

\* either except clause: clean up, raise
DownloadFails(cause, mid) ==
    /\ dFs' = [dFs EXCEPT !.tmp = TempAfterFailure(dFs.tmp)]
    /\ dCall' = [dCall EXCEPT !.pc = "idle", !.result = RaisedAs(cause),
                              !.cause = cause, !.midTransfer = mid,
                              !.failedBefore = TRUE]

\* the call up to the first write: the response arrives with a content type
\* and a body; a login page raises AuthenticationError inside the try, any
\* other html body has its first chunk written, a binary body none yet
DownloadOpen ==
    /\ dCall.pc = "idle"
    /\ \E html \in BOOLEAN, body \in DownloadBodies :
          LET call == [dCall EXCEPT !.pc = "streaming", !.html = html, !.body = body,
                                    !.written = 0, !.result = "none", !.cause = "none",
                                    !.midTransfer = FALSE, !.destBefore = dFs.dest]
          IN IF html /\ IsLoginPage(body)
             THEN /\ dFs' = [dFs EXCEPT !.tmp = TempAfterFailure(dFs.tmp)]
                  /\ dCall' = [call EXCEPT !.pc = "idle",
                                           !.result = RaisedAs("AuthenticationError"),
                                           !.cause = "AuthenticationError",
                                           !.failedBefore = TRUE]
             ELSE IF html
             THEN /\ dFs' = [dFs EXCEPT !.tmp = FileOf(FirstChunk(body))]
                  /\ dCall' = [call EXCEPT !.written = Len(FirstChunk(body))]
             ELSE /\ dFs' = [dFs EXCEPT !.tmp = FileOf(<<>>)]
                  /\ dCall' = call
    /\ UNCHANGED notDownload

\* response.raise_for_status() or the connection raises before any byte
DownloadRejected ==
    /\ dCall.pc = "idle"
    /\ \E html \in BOOLEAN, body \in DownloadBodies :
          LET call == [dCall EXCEPT !.html = html, !.body = body, !.written = 0,
                                    !.destBefore = dFs.dest]
          IN /\ dFs' = [dFs EXCEPT !.tmp = TempAfterFailure(dFs.tmp)]
             /\ dCall' = [call EXCEPT !.pc = "idle", !.result = RaisedAs("HTTPError"),
                                      !.cause = "HTTPError", !.midTransfer = FALSE,
                                      !.failedBefore = TRUE]
    /\ UNCHANGED notDownload

\* one turn of `async for chunk in response.aiter_bytes(...)`: f.write(chunk)
DownloadWriteChunk ==
    /\ dCall.pc = "streaming"
    /\ dCall.written < Len(dCall.body)
    /\ dFs' = [dFs EXCEPT !.tmp = FileOf(Append(dFs.tmp.data, dCall.body[dCall.written + 1]))]
    /\ dCall' = [dCall EXCEPT !.written = dCall.written + 1]
    /\ UNCHANGED notDownload

\* the stream raises while chunks are read or written: an httpx.HTTPError
\* (read error, timeout) or another Exception (OSError of the write)
DownloadInterrupted ==
    /\ dCall.pc = "streaming"
    /\ \E cause \in {"HTTPError", "Exception"} : DownloadFails(cause, TRUE)
    /\ UNCHANGED notDownload

\* the stream ends: temp_file.rename(output_file), return
DownloadComplete ==
    /\ dCall.pc = "streaming"
    /\ dCall.written = Len(dCall.body)
    /\ dFs' = [dest |-> dFs.tmp, tmp |-> Absent]
    /\ dCall' = [dCall EXCEPT !.pc = "idle", !.result = "returned"]
    /\ UNCHANGED notDownload

InitDownload ==
    /\ IdleDownload
    /\ IdleRpc /\ IdleRetry /\ IdleExtract /\ IdleParse /\ IdleBuild /\ IdleUpload
    /\ IdleArtifact /\ IdleWait /\ IdleTool /\ IdleTail

NextDownload ==
    \/ DownloadOpen
    \/ DownloadRejected
    \/ DownloadWriteChunk
    \/ DownloadInterrupted
    \/ DownloadComplete

SpecDownload == InitDownload /\ [][NextDownload]_vars

-----------------------------------------------------------------------------
(* core/sources.py: add_file and the three steps of the resumable upload *)

notUpload == <<coreVars, buildVars, downloadVars, artifactVars, waitVars, toolVars,
    tailVars>>

supported_extensions ==
    {".pdf", ".txt", ".md", ".docx", ".csv", ".mp3", ".mp4", ".jpg", ".jpeg", ".png"}

\* the suffixes of the files of the model
FileSuffixes == supported_extensions \cup {".PDF", ".exe", ".tmp", ""}

\* file_path.suffix.lower()
LowerSuffix(ext) == IF ext = ".PDF" THEN ".pdf" ELSE ext

\* a validation without the size test
Rejected_sizeUnchecked(file) ==
    \/ file.kind # "file"
    \/ LowerSuffix(file.ext) \notin supported_extensions

\* the four tests of add_file that raise FileValidationError
Rejected(file) ==
    \/ file.kind = "missing"
    \/ file.kind # "file"
    \/ file.size = 0
    \/ LowerSuffix(file.ext) \notin supported_extensions

\* what a step's request comes back with: a value, or a failure
\*   step 1   "s1", "s2" (the SOURCE_ID), "noid" (no string in the result),
\*   step 2   "u1", "u2" (x-goog-upload-url), "" (no such header),
\*   step 3   "ok",
\*   any      "HTTPError" (raised out of execute_with_retry)
\*   step 1   "AuthenticationError" (error 16 in the response)
StepAnswers(step) ==
    IF step = "register" THEN {"s1", "s2", "noid", "HTTPError", "AuthenticationError"}
    ELSE IF step = "start" THEN {"u1", "u2", "", "HTTPError"}
    ELSE {"ok", "HTTPError"}

\* a test of the header that accepts its absence
StepRaises_headerUnchecked(ans) ==
    IF ans = "noid" THEN "FileUploadError"
    ELSE IF ans \in {"HTTPError", "AuthenticationError"} THEN ans
    ELSE "none"

\* what a step raises on an answer, "none" when it returns
StepRaises(ans) ==
    IF ans \in {"noid", ""} THEN "FileUploadError"
    ELSE IF ans \in {"HTTPError", "AuthenticationError"} THEN ans
    ELSE "none"

\* the request a step issues, with the argument that ties it to the step before
Issued(step, arg, ans) == Append(uCall.net, [step |-> step, arg |-> arg, ans |-> ans])

\* add_file up to step 1: the validation
AddFile ==
    /\ uCall.pc = "idle"
    /\ uCall' = IF Rejected(uFile)
                THEN [uCall EXCEPT !.pc = "done", !.result = "FileValidationError"]
                ELSE [uCall EXCEPT !.pc = "register"]
    /\ UNCHANGED <<uFile, notUpload>>

\* step 1: source_id = self._register_file_source(notebook_id, filename)
RegisterFileSource ==
    /\ uCall.pc = "register"
    /\ \E ans \in StepAnswers("register") :
          uCall' = IF StepRaises(ans) # "none"
                   THEN [uCall EXCEPT !.pc = "done", !.result = StepRaises(ans),
                                      !.net = Issued("register", uFile.ext, ans)]
                   ELSE [uCall EXCEPT !.pc = "start", !.source_id = ans,
                                      !.net = Issued("register", uFile.ext, ans)]
    /\ UNCHANGED <<uFile, notUpload>>

\* step 2: upload_url = self._start_resumable_upload(..., source_id)
StartResumableUpload ==
    /\ uCall.pc = "start"
    /\ \E ans \in StepAnswers("start") :
          uCall' = IF StepRaises(ans) # "none"
                   THEN [uCall EXCEPT !.pc = "done", !.result = StepRaises(ans),
                                      !.net = Issued("start", uCall.source_id, ans)]
                   ELSE [uCall EXCEPT !.pc = "upload", !.upload_url = ans,
                                      !.net = Issued("start", uCall.source_id, ans)]
    /\ UNCHANGED <<uFile, notUpload>>

\* step 3: self._upload_file_streaming(upload_url, file_path), and the end of
\* add_file: the result, or wait_for_source_ready when wait is set
UploadFileStreaming ==
    /\ uCall.pc = "upload"
    /\ \E ans \in StepAnswers("upload"),
          waited \in {"returned", "RuntimeError", "TimeoutError"} :
          uCall' = IF StepRaises(ans) # "none"
                   THEN [uCall EXCEPT !.pc = "done", !.result = StepRaises(ans),
                                      !.net = Issued("upload", uCall.upload_url, ans)]
                   ELSE [uCall EXCEPT !.pc = "done",
                                      !.result = IF uFile.wait THEN waited ELSE "returned",
                                      !.net = Issued("upload", uCall.upload_url, ans)]
    /\ UNCHANGED <<uFile, notUpload>>

InitUpload ==
    /\ uFile \in [kind : {"missing", "dir", "file"}, size : {0, 1, 70000},
                  ext : FileSuffixes, wait : BOOLEAN]
    /\ uCall = NoUpload
    /\ IdleRpc /\ IdleRetry /\ IdleExtract /\ IdleParse /\ IdleBuild /\ IdleDownload
    /\ IdleArtifact /\ IdleWait /\ IdleTool /\ IdleTail

NextUpload ==
    \/ AddFile
    \/ RegisterFileSource
    \/ StartResumableUpload
    \/ UploadFileStreaming

SpecUpload == InitUpload /\ [][NextUpload]_vars

-----------------------------------------------------------------------------
(* core/download.py: _parse_data_table, download_mind_map, _extract_app_data *)

notArtifact == <<coreVars, buildVars, downloadVars, uploadVars, waitVars, toolVars,
    tailVars>>

ParserRaises(exc) == [done |-> TRUE, raised |-> exc, value |-> <<>>]
ParserReturns(value) == [done |-> TRUE, raised |-> "", value |-> value]

\* A cell of a data table, by its shape: None, a number, a string of blanks,
\* the string " a ", the list [0, " b "], a list of numbers only
CellKinds == {"none", "num", "blank", "text", "nested", "markers"}

\* _extract_cell_text(cell)
extract_cell_text(cell) ==
    IF cell = "text" THEN "a" ELSE IF cell = "nested" THEN "b" ELSE ""

\* a row_section: well formed ([start, end, [cells]]) or not, and its cells
TableRows ==
    [ok : {TRUE}, cells : UNION {[1..len -> {"none", "text", "nested"}] : len \in 0..2}]
    \cup {[ok |-> FALSE, cells |-> <<"text">>],
          [ok |-> TRUE, cells |-> <<"num", "blank">>],
          [ok |-> TRUE, cells |-> <<"markers", "text", "text">>]}

\* a row fitted to the headers without the truncation
FitRow_padOnly(row_values, headers, validate_columns) ==
    IF validate_columns /\ Len(row_values) < Len(headers)
    THEN row_values \o [k \in 1..(Len(headers) - Len(row_values)) |-> ""]
    ELSE row_values

\* `if validate_columns and len(row_values) != len(headers)`: pad or truncate
FitRow(row_values, headers, validate_columns) ==
    IF validate_columns /\ Len(row_values) # Len(headers)
    THEN IF Len(row_values) < Len(headers)
         THEN row_values \o [k \in 1..(Len(headers) - Len(row_values)) |-> ""]
         ELSE SubSeq(row_values, 1, Len(headers))
    ELSE row_values

\* the loop over rows_array and the final validation
RECURSIVE ParseRows(_, _, _, _, _)
ParseRows(rows_array, i, headers, rows, validate_columns) ==
    IF i > Len(rows_array)
    THEN IF headers = <<>> \/ rows = <<>> THEN ParserRaises("ArtifactParseError")
         ELSE ParserReturns([headers |-> headers, rows |-> rows])
    ELSE IF ~rows_array[i].ok
    THEN ParseRows(rows_array, i + 1, headers, rows, validate_columns)
    ELSE LET row_values == [k \in 1..Len(rows_array[i].cells) |->
                               extract_cell_text(rows_array[i].cells[k])]
         IN IF i = 1
            THEN IF \A k \in 1..Len(row_values) : row_values[k] = ""
                 THEN ParserRaises("ArtifactParseError")
                 ELSE ParseRows(rows_array, i + 1, row_values, rows, validate_columns)
            ELSE ParseRows(rows_array, i + 1, headers,
                           Append(rows, FitRow(row_values, headers, validate_columns)),
                           validate_columns)

\* _parse_data_table(raw_data, validate_columns); raw.depth tells how many of
\* the six navigation steps down to raw_data[0][0][0][0][4][2] find the list
\* they expect
parse_data_table(raw, validate_columns) ==
    IF raw.depth < 6 \/ raw.rows = <<>> THEN ParserRaises("ArtifactParseError")
    ELSE ParseRows(raw.rows, 1, <<>>, <<>>, validate_columns)

\* An entry of the mind map list, by its shape: no list (None), [], [id],
\* [id, [x]], [id, [x, 5]], [id, [x, "{"]], [id, [x, "{...}"]]
MindMapEntries ==
    [kind : {"nolist", "empty"}, id : {""}]
    \cup [kind : {"idonly", "short", "nonstr", "badjson", "ok"}, id : {"m1", "m2"}]

\* `next((mm for mm in mind_maps if isinstance(mm, list) and mm[0] == artifact_id), None)`:
\* the position found, 0 for None, -1 when mm[0] raises IndexError
RECURSIVE FindMindMap(_, _, _)
FindMindMap(mind_maps, artifact_id, i) ==
    IF i > Len(mind_maps) THEN 0
    ELSE IF mind_maps[i].kind = "nolist" THEN FindMindMap(mind_maps, artifact_id, i + 1)
    ELSE IF mind_maps[i].kind = "empty" THEN -1
    ELSE IF mind_maps[i].id = artifact_id THEN i
    ELSE FindMindMap(mind_maps, artifact_id, i + 1)

\* the try block of download_mind_map on the target
MindMapOf(target) ==
    IF target.kind = "ok" THEN ParserReturns(<<target.id>>)
    ELSE ParserRaises("ArtifactParseError")

\* download_mind_map once the list RPC has returned mind_maps
download_mind_map(mind_maps, artifact_id) ==
    IF mind_maps = <<>> THEN ParserRaises("ArtifactNotReadyError")
    ELSE IF artifact_id # ""
    THEN IF FindMindMap(mind_maps, artifact_id, 1) = -1 THEN ParserRaises("IndexError")
         ELSE IF FindMindMap(mind_maps, artifact_id, 1) = 0
         THEN ParserRaises("ArtifactNotFoundError")
         ELSE MindMapOf(mind_maps[FindMindMap(mind_maps, artifact_id, 1)])
    ELSE MindMapOf(mind_maps[1])

\* the patterns with script#application-data tried first
ExtractPatterns_scriptFirst ==
    <<"script#application-data", "data-app-data", "data-state", "data-config",
      "data-initial-state">>

\* the patterns of _extract_app_data in the order it tries them
ExtractPatterns ==
    <<"data-app-data", "script#application-data", "data-state", "data-config",
      "data-initial-state">>

\* What the html holds for a pattern: nothing ("absent"), text that is no
\* JSON ("bad"), JSON ("json"), or JSON written with &quot; ("escaped")
\* json.loads succeeds on what the pattern hands it: the attribute patterns
\* go through html.unescape first, the script pattern does not
Parseable(pattern, content) ==
    content = "json" \/ (content = "escaped" /\ pattern # "script#application-data")

RECURSIVE TryPatterns(_, _)
TryPatterns(html, i) ==
    IF i > Len(ExtractPatterns) THEN ParserRaises("ArtifactParseError")
    ELSE IF Parseable(ExtractPatterns[i], html[ExtractPatterns[i]])
    THEN ParserReturns(<<ExtractPatterns[i]>>)
    ELSE TryPatterns(html, i + 1)

extract_app_data(html) == TryPatterns(html, 1)

\* the calls
ParseDataTable ==
    /\ aIn.op = "data_table" /\ ~aOut.done
    /\ aOut' = parse_data_table(aIn.raw, aIn.validate)
    /\ UNCHANGED <<aIn, notArtifact>>

DownloadMindMap ==
    /\ aIn.op = "mind_map" /\ ~aOut.done
    /\ aOut' = download_mind_map(aIn.maps, aIn.artifact_id)
    /\ UNCHANGED <<aIn, notArtifact>>

ExtractAppData ==
    /\ aIn.op = "app_data" /\ ~aOut.done
    /\ aOut' = extract_app_data(aIn.html)
    /\ UNCHANGED <<aIn, notArtifact>>

InitArtifact ==
    /\ \/ \E depth \in 0..6, len \in 0..MaxRows, validate \in BOOLEAN :
             \E rows \in [1..len -> TableRows] :
                /\ depth < 6 => rows = <<>>
                /\ aIn = [NoArtifact EXCEPT !.op = "data_table", !.validate = validate,
                                            !.raw = [depth |-> depth, rows |-> rows]]
       \/ \E len \in 0..2, artifact_id \in {"", "m1", "m2"} :
             \E maps \in [1..len -> MindMapEntries] :
                aIn = [NoArtifact EXCEPT !.op = "mind_map", !.maps = maps,
                                         !.artifact_id = artifact_id]
       \/ \E html \in [{ExtractPatterns[i] : i \in 1..5} -> {"absent", "bad", "json", "escaped"}] :
             aIn = [NoArtifact EXCEPT !.op = "app_data", !.html = html]
    /\ aOut = NotParsed
    /\ IdleRpc /\ IdleRetry /\ IdleExtract /\ IdleParse /\ IdleBuild /\ IdleDownload
    /\ IdleUpload /\ IdleWait /\ IdleTool /\ IdleTail

NextArtifact ==
    \/ ParseDataTable
    \/ DownloadMindMap
    \/ ExtractAppData

SpecArtifact == InitArtifact /\ [][NextArtifact]_vars

-----------------------------------------------------------------------------
(* Claims about _call_rpc, checked under Spec *)

\* the scenario of C1: the first POST was answered 401 or 403, the token
\* refresh scraped a token, and the second POST succeeded
C1_Scenario ==
    /\ outcome.kind = "returned"
    /\ hist.posts = 2
    /\ hist.firstStatus \in {401, 403}
    /\ hist.nRefresh = 1
    /\ hist.scraped # ""

\* C1: when the first attempt is answered 401 or 403, the token refresh
\* yields a CSRF token and the second attempt succeeds, the call returns the
\* second attempt's payload, the client's csrf_token is the scraped token,
\* and the retried request body carried that token.
C1_RefreshThenSuccess ==
    C1_Scenario =>
        /\ outcome.val = Returned("decoded", hist.sent)
        /\ csrf_token = hist.scraped
        /\ hist.bodyCsrf = hist.scraped

\* the scenario of C1 with a token that differs from the one the body of the
\* first attempt carried
C1_Witness ==
    /\ C1_Scenario
    /\ hist.scraped = "tok2"
    /\ outcome.val = Returned("decoded", "payload2")

\* C2: within one originating call _refresh_auth_tokens is invoked at most
\* once and _try_reload_or_headless_auth at most once, over all recursive
\* re-invocations and backoff retries.
C2_EachLayerAtMostOnce ==
    /\ hist.nRefresh <= 1
    /\ hist.nReload <= 1

\* both layers were used, with backoff retries in between, and the call ended
C2_Witness ==
    /\ pc = "done"
    /\ hist.nRefresh = 1
    /\ hist.nReload = 1
    /\ hist.sleeps >= 2

\* C3: the terminal authentication error is raised only after token
\* refresh, disk reload and headless re-auth have each been attempted.
C3_TerminalOnlyAfterAllLayers ==
    outcome.kind = "AuthenticationError" =>
        /\ hist.nRefresh >= 1
        /\ hist.disk # "unchecked"
        /\ hist.headless

\* the session auth.json holds is one _try_reload_or_headless_auth reloads
C4_DiskSessionUsable ==
    /\ authJson.exists
    /\ IF profile.exists THEN profile.cookies # "" ELSE authJson.cookies # ""

\* C4: recovery is cheapest-first: _try_reload_or_headless_auth runs only
\* after a token refresh was attempted, and headless re-auth runs only when
\* the cached session on disk was checked and is unusable.
C4_CheapestFirst ==
    [][hist'.nReload > hist.nReload =>
          /\ hist.nRefresh >= 1
          /\ hist'.disk = "unusable" => (~C4_DiskSessionUsable /\ hist'.headless)
          /\ hist'.disk = "usable" =>
                (C4_DiskSessionUsable /\ hist'.headless = hist.headless)]_vars

\* headless re-auth ran, after a refresh that had succeeded
C4_Witness ==
    /\ hist.headless
    /\ hist.nRefresh = 1
    /\ hist.scraped # ""
    /\ hist.posts >= 3

\* a response with this status is handled in the step
C5_Answered(status) == pc = "post" /\ hist'.lastStatus = status

\* C5: a 401 or 403 is never retried under the retry policy (no backoff
\* sleep, no server-retry frame; it enters auth recovery), a 429/500/502/
\* 503/504 is retried with backoff while retries are left and raised otherwise,
\* and never enters auth recovery; the retries after a recovery step start
\* with a server-retry counter of 0.
C5_AuthNeverBackoff ==
    [][/\ \A status \in {401, 403} :
            C5_Answered(status) =>
                /\ hist'.sleeps = hist.sleeps
                /\ hist'.nAuth = hist.nAuth + 1
                /\ hist'.posts = hist.posts
                /\ \/ stack' = stack /\ pc' \in {"refresh", "reload"}
                   \/ stack' = <<>> /\ outcome'.kind = "AuthenticationError"
       /\ \A status \in {429, 500, 502, 503, 504} :
            C5_Answered(status) =>
                /\ hist'.nAuth = hist.nAuth
                /\ pc' \notin {"refresh", "reload"}
                /\ outcome'.kind # "AuthenticationError"
                /\ IF Top.srv < 3
                   THEN /\ hist'.sleeps = hist.sleeps + 1
                        /\ pc' = "post"
                        /\ stack'[Len(stack')].srv = Top.srv + 1
                   ELSE outcome'.kind = "HTTPStatusError"
       /\ (pc \in {"refresh", "reload"} /\ pc' = "post") =>
             stack'[Len(stack')].srv = 0]_vars

\* a 503 was retried with backoff and the 403 that followed went to layer 1
C5_Witness ==
    /\ hist.lastStatus = 403
    /\ pc = "refresh"
    /\ hist.sleeps = 2
    /\ Top.srv = 2

-----------------------------------------------------------------------------
(* Claims about execute_with_retry, checked under SpecRetry *)

Transient == {429, 500, 502, 503, 504}

\* func fails with a transient status on its first n invocations
FailsTransient(n) ==
    /\ n <= Len(rPlan)
    /\ \A i \in 1..n : rPlan[i].status \in Transient

\* func fails with a transient status n times and then succeeds
FailsThenSucceeds(n) ==
    /\ Len(rPlan) = n + 1
    /\ FailsTransient(n)
    /\ rPlan[n + 1].status = 200

RetryEnded == rOutcome # "running"

\* C6: for every N < max_retries, if func fails with a retryable status on
\* its first N invocations and then succeeds, execute_with_retry returns
\* that success value after exactly N+1 invocations of func.
C6_FailuresThenSuccess ==
    \A n \in 0..MaxRetriesArg :
        (n < rMax /\ FailsThenSucceeds(n)) =>
            /\ rCalls <= n + 1
            /\ ~ENABLED NextRetry =>
                  /\ rOutcome = "returned"
                  /\ rValue = rPlan[n + 1]
                  /\ rCalls = n + 1

\* two transient failures, among them a 429, then success with max_retries 3
C6_Witness ==
    /\ rMax = 3
    /\ FailsThenSucceeds(2)
    /\ rPlan[1].status = 429
    /\ rOutcome = "returned"
    /\ rCalls = 3
    /\ rDelays = <<1, 2>>

\* C7: if func fails with a retryable status on every invocation,
\* execute_with_retry ends by raising the HTTPStatusError after exactly
\* max_retries + 1 invocations of func, and invokes it no more.
C7_ExhaustedAfterMaxPlusOne ==
    FailsTransient(Len(rPlan)) =>
        /\ [](rCalls <= rMax + 1)
        /\ [](RetryEnded => /\ rOutcome = "raised"
                            /\ rValue.status \in Transient
                            /\ rCalls = rMax + 1
                            /\ Len(rDelays) = rMax)
        /\ <>[](RetryEnded /\ ~ENABLED NextRetry)

\* max_retries 2 and a func that always fails with 503: three invocations
C7_Witness ==
    /\ rMax = 2
    /\ rPlan = <<FuncRaises(503)>>
    /\ rOutcome = "raised"
    /\ rCalls = 3

\* C8: if func raises an HTTPStatusError with a status of 400, 401, 403 or
\* 404, that invocation is the last one, the error is propagated, and no
\* backoff sleep follows; raised by the first invocation, func is invoked
\* exactly once and nothing is slept.
C8_NonRetryablePropagates ==
    [][\A st \in {400, 401, 403, 404} :
          (rOutcome = "running" /\ FuncCall(rCalls + 1).status = st) =>
              /\ rCalls' = rCalls + 1
              /\ rOutcome' = "raised"
              /\ rValue'.status = st
              /\ rDelays' = rDelays
              /\ ~(ENABLED NextRetry)'
              /\ rCalls = 0 => (rCalls' = 1 /\ rDelays' = <<>>)]_vars

\* a 404 on the first invocation, with retries to spare
C8_Witness ==
    /\ rMax = 3
    /\ rPlan[1].status = 404
    /\ rOutcome = "raised"
    /\ rValue.status = 404
    /\ rCalls = 1
    /\ rDelays = <<>>

-----------------------------------------------------------------------------
(* Claims about _extract_rpc_result, checked under SpecExtract *)

\* the items of the response in order, chunk after chunk
RECURSIVE C9_Flatten(_, _)
C9_Flatten(parsed, c) ==
    IF c > Len(parsed) THEN <<>>
    ELSE (IF parsed[c].isList THEN parsed[c].items ELSE <<>>)
         \o C9_Flatten(parsed, c + 1)

C9_Items == C9_Flatten(xParsed, 1)

\* the positions of the items ["wrb.fr", rpc_id, ...]
C9_ItemsFor(rpc_id) ==
    {i \in 1..Len(C9_Items) :
        /\ C9_Items[i].isList
        /\ C9_Items[i].len >= 3
        /\ C9_Items[i].f0 = "wrb.fr"
        /\ C9_Items[i].f1 = rpc_id}

\* the error-16 signature ["wrb.fr", rpc_id, null, null, null, [16], "generic"]
C9_IsSignature(item) ==
    /\ item.len >= 7
    /\ item.f5list
    /\ 16 \in item.f5
    /\ item.f6 = "generic"

-----------------------------------------------------------------------------
(* Claims about _parse_response, checked under SpecParse *)

\* the lines of the text that are not blank, the prefix taken off
RECURSIVE C10_NonBlank(_)
C10_NonBlank(lines) ==
    IF lines = <<>> THEN <<>>
    ELSE IF Head(lines) = "blank" THEN C10_NonBlank(Tail(lines))
    ELSE <<Head(lines)>> \o C10_NonBlank(Tail(lines))

C10_Lines == C10_NonBlank(pText.lines)

C10_Payload(kind) ==
    IF kind = "json1" THEN "array1" ELSE IF kind = "json2" THEN "array2" ELSE "none"

\* the text is the prefix followed by (byte count, JSON) pairs
C10_IsPairs ==
    /\ pText.pfx
    /\ Len(C10_Lines) % 2 = 0
    /\ \A i \in 1..Len(C10_Lines) :
          IF i % 2 = 1 THEN C10_Lines[i] = "count"
          ELSE C10_Lines[i] \in {"json1", "json2"}

\* the payloads of all lines that hold a JSON array, in the order of the text
RECURSIVE C10_Arrays(_)
C10_Arrays(lines) ==
    IF lines = <<>> THEN <<>>
    ELSE IF Head(lines) \in {"json1", "json2"}
         THEN <<C10_Payload(Head(lines))>> \o C10_Arrays(Tail(lines))
         ELSE C10_Arrays(Tail(lines))

\* the elements of the result that are arrays
RECURSIVE C10_OnlyArrays(_)
C10_OnlyArrays(results) ==
    IF results = <<>> THEN <<>>
    ELSE IF Head(results) \in {"array1", "array2"}
         THEN <<Head(results)>> \o C10_OnlyArrays(Tail(results))
         ELSE C10_OnlyArrays(Tail(results))

\* what _parse_response returns when it returns: for the prefix followed by N
\* (byte count, JSON) pairs exactly the N payloads in the order of the input;
\* for any text every JSON array of it, in order, with or without counts;
\* nothing for the lines that are neither
C10_Decoding ==
    /\ C10_IsPairs =>
          /\ Len(pOut.results) * 2 = Len(C10_Lines)
          /\ \A n \in 1..Len(pOut.results) :
                pOut.results[n] = C10_Payload(C10_Lines[2 * n])
    /\ C10_OnlyArrays(pOut.results) = C10_Arrays(pText.lines)
    /\ \A n \in 1..Len(pOut.results) :
          pOut.results[n] \in {"array1", "array2", "number"}
    /\ (\A i \in 1..Len(pText.lines) : pText.lines[i] \in {"bad", "blank"}) =>
          pOut.results = <<>>

\* the decoding is as described whenever the call returns
C10_DecodingWhenReturned == (pOut.done /\ ~pOut.raised) => C10_Decoding

\* the prefix on a line of its own, two pairs with different payloads
C10_PairsParsed ==
    /\ pOut.done
    /\ pText = [pfx |-> TRUE, lines |-> <<"blank", "count", "json2", "count", "json1">>]
    /\ pOut.results = <<"array2", "array1">>

\* C10: for a text that starts with the prefix and goes on with N (byte
\* count, JSON) pairs the result has exactly N elements, the decoded
\* payloads in the order of the input; JSON lines without a count are
\* decoded too; lines that do not decode are skipped, and no input makes the
\* call raise.
C10_ParsePairs == pOut.done => (~pOut.raised /\ C10_Decoding)

-----------------------------------------------------------------------------
(* Claims about _build_request_body, checked under SpecBuild *)

\* the character at position i, "" past the end
C11_At(cs, i) == IF i >= 1 /\ i <= Len(cs) THEN cs[i] ELSE ""

C11_Fail == [ok |-> FALSE, val |-> JNull, next |-> 0]

C11_IsDigit(c) == \E d \in 1..10 : DigitChars[d] = c

C11_DigitVal(c) == (CHOOSE d \in 1..10 : DigitChars[d] = c) - 1

\* the digits from position i on, as a number
RECURSIVE C11_ParseDigits(_, _, _)
C11_ParseDigits(cs, i, n) ==
    IF C11_IsDigit(C11_At(cs, i))
    THEN C11_ParseDigits(cs, i + 1, 10 * n + C11_DigitVal(cs[i]))
    ELSE [ok |-> TRUE, val |-> JInt(n), next |-> i]

\* a JSON string from the character after its opening quote on
RECURSIVE C11_ParseString(_, _, _)
C11_ParseString(cs, i, acc) ==
    IF i > Len(cs) THEN C11_Fail
    ELSE IF cs[i] = "\"" THEN [ok |-> TRUE, val |-> JStr(acc), next |-> i + 1]
    ELSE IF cs[i] = "\\"
         THEN IF C11_At(cs, i + 1) = "\"" THEN C11_ParseString(cs, i + 2, Append(acc, "\""))
              ELSE IF C11_At(cs, i + 1) = "\\" THEN C11_ParseString(cs, i + 2, Append(acc, "\\"))
              ELSE IF C11_At(cs, i + 1) = "n" THEN C11_ParseString(cs, i + 2, Append(acc, "LF"))
              ELSE IF /\ C11_At(cs, i + 1) = "u"
                      /\ i + 5 <= Len(cs)
                      /\ SubSeq(cs, i + 2, i + 5) = <<"0", "0", "e", "9">>
                   THEN C11_ParseString(cs, i + 6, Append(acc, "U+00E9"))
              ELSE C11_Fail
    ELSE C11_ParseString(cs, i + 1, Append(acc, cs[i]))

C11_Word(cs, i, word) ==
    i + Len(word) - 1 <= Len(cs) /\ SubSeq(cs, i, i + Len(word) - 1) = word

\* json.loads, as a recursive-descent parser of compact JSON
RECURSIVE C11_ParseValue(_, _)
RECURSIVE C11_ParseItems(_, _, _)
C11_ParseItems(cs, i, acc) ==
    LET r == C11_ParseValue(cs, i) IN
    IF ~r.ok THEN C11_Fail
    ELSE IF C11_At(cs, r.next) = ","
         THEN C11_ParseItems(cs, r.next + 1, Append(acc, r.val))
    ELSE IF C11_At(cs, r.next) = "]"
         THEN [ok |-> TRUE, val |-> JList(Append(acc, r.val)), next |-> r.next + 1]
    ELSE C11_Fail

C11_ParseValue(cs, i) ==
    IF C11_Word(cs, i, <<"n", "u", "l", "l">>)
    THEN [ok |-> TRUE, val |-> JNull, next |-> i + 4]
    ELSE IF C11_Word(cs, i, <<"t", "r", "u", "e">>)
    THEN [ok |-> TRUE, val |-> JBool(TRUE), next |-> i + 4]
    ELSE IF C11_Word(cs, i, <<"f", "a", "l", "s", "e">>)
    THEN [ok |-> TRUE, val |-> JBool(FALSE), next |-> i + 5]
    ELSE IF C11_At(cs, i) = "\"" THEN C11_ParseString(cs, i + 1, <<>>)
    ELSE IF C11_At(cs, i) = "["
         THEN IF C11_At(cs, i + 1) = "]"
              THEN [ok |-> TRUE, val |-> JList(<<>>), next |-> i + 2]
              ELSE C11_ParseItems(cs, i + 1, <<>>)
    ELSE IF C11_At(cs, i) = "-" /\ C11_IsDigit(C11_At(cs, i + 1))
         THEN LET r == C11_ParseDigits(cs, i + 1, 0)
              IN [ok |-> TRUE, val |-> JInt(0 - r.val.n), next |-> r.next]
    ELSE IF C11_IsDigit(C11_At(cs, i)) THEN C11_ParseDigits(cs, i, 0)
    ELSE C11_Fail

C11_JsonLoads(cs) ==
    LET r == C11_ParseValue(cs, 1)
    IN IF r.ok /\ r.next = Len(cs) + 1 THEN r ELSE C11_Fail

\* urllib.parse.unquote
RECURSIVE C11_Unquote(_)
C11_Unquote(cs) ==
    IF cs = <<>> THEN <<>>
    ELSE IF /\ Head(cs) = "%"
            /\ Len(cs) >= 3
            /\ \E code \in PercentCodes : code[2] = cs[2] /\ code[3] = cs[3]
         THEN <<(CHOOSE code \in PercentCodes : code[2] = cs[2] /\ code[3] = cs[3])[1]>>
              \o C11_Unquote(SubSeq(cs, 4, Len(cs)))
    ELSE <<Head(cs)>> \o C11_Unquote(Tail(cs))

\* str.split(sep)
RECURSIVE C11_Split(_, _)
C11_Split(cs, sep) ==
    IF \A k \in 1..Len(cs) : cs[k] # sep THEN <<cs>>
    ELSE LET k == CHOOSE k \in 1..Len(cs) :
                      cs[k] = sep /\ \A j \in 1..(k - 1) : cs[j] # sep
         IN <<SubSeq(cs, 1, k - 1)>> \o C11_Split(SubSeq(cs, k + 1, Len(cs)), sep)

C11_Segments == C11_Split(bOut.body, "&")

\* the name and the value of a field name=value
C11_Name(field) == C11_Split(field, "=")[1]
C11_Value(field) == SubSeq(field, Len(C11_Name(field)) + 2, Len(field))

C11_Generic == JStr(<<"g", "e", "n", "e", "r", "i", "c">>)

\* the f.req field, URL-decoded and JSON-decoded
C11_Envelope == C11_JsonLoads(C11_Unquote(C11_Value(C11_Segments[1])))

\* C11: URL-decoding and JSON-decoding the f.req field of the body yields
\* exactly [[[rpc_id, json(params), null, "generic"]]], JSON-decoding the
\* embedded params string yields params, the body carries an at=<csrf> field
\* exactly when csrf_token is not empty, and it ends with "&".
C11_RoundTrip ==
    bOut.done =>
        /\ bOut.body[Len(bOut.body)] = "&"
        /\ C11_Segments[Len(C11_Segments)] = <<>>
        /\ C11_Name(C11_Segments[1]) = <<"f", ".", "r", "e", "q">>
        /\ C11_Envelope.ok
        /\ C11_Envelope.val.t = "list" /\ Len(C11_Envelope.val.items) = 1
        /\ C11_Envelope.val.items[1].t = "list"
        /\ Len(C11_Envelope.val.items[1].items) = 1
        /\ LET call == C11_Envelope.val.items[1].items[1] IN
              /\ call.t = "list" /\ Len(call.items) = 4
              /\ call.items[1] = JStr(bIn.rpc_id)
              /\ call.items[2].t = "str"
              /\ C11_JsonLoads(call.items[2].s).ok
              /\ C11_JsonLoads(call.items[2].s).val = bIn.params
              /\ call.items[3] = JNull
              /\ call.items[4] = C11_Generic
        /\ IF bIn.csrf # <<>>
           THEN /\ Len(C11_Segments) = 3
                /\ C11_Name(C11_Segments[2]) = <<"a", "t">>
                /\ C11_Unquote(C11_Value(C11_Segments[2])) = bIn.csrf
           ELSE Len(C11_Segments) = 2

\* a body for params with quotes, backslashes and a nested list, an rpc id
\* that needs escaping and a csrf token that needs quoting
C11_Witness ==
    /\ bOut.done
    /\ bIn.rpc_id = <<"a", "\"", "&">>
    /\ bIn.csrf = <<"a", "&", "=", "/", "%">>
    /\ bIn.params = JList(<<JStr(<<"\"", "\\">>), JList(<<JStr(<<"\"">>), JNull>>)>>)

-----------------------------------------------------------------------------
(* Claims about _download_url, checked under SpecDownload *)

\* the last call was interrupted by an exception while it streamed
C12_Interrupted == dCall.pc = "idle" /\ dCall.midTransfer

\* the last call returned: the destination holds the complete body and no
\* temp file is left
C12_CompleteAfterSuccess ==
    (dCall.pc = "idle" /\ dCall.result = "returned") =>
        (dFs.dest = FileOf(dCall.body) /\ dFs.tmp = Absent)

\* C12 as claimed: after an exception mid-transfer no file exists at the
\* destination, the temp file is deleted and ArtifactDownloadError is raised;
\* a later successful call leaves the complete body at the destination.
C12_InterruptLeavesNoFile ==
    /\ C12_Interrupted =>
          /\ dFs.dest = Absent
          /\ dFs.tmp = Absent
          /\ dCall.result = "ArtifactDownloadError"
    /\ C12_CompleteAfterSuccess

\* C12 (amended): after an exception mid-transfer the destination is as it
\* was before the call (no file there if there was none, the earlier
\* complete download otherwise), the temp file is deleted and
\* ArtifactDownloadError is raised; a later successful call leaves the
\* complete body at the destination.
C12_InterruptLeavesDestination ==
    /\ C12_Interrupted =>
          /\ dFs.dest = dCall.destBefore
          /\ (~dCall.destBefore.exists => ~dFs.dest.exists)
          /\ dFs.tmp = Absent
          /\ dCall.result = "ArtifactDownloadError"
    /\ C12_CompleteAfterSuccess

\* a download of two chunks that succeeds after an earlier call to the path
\* was interrupted with nothing at the destination
C12_Witness ==
    /\ dCall.pc = "idle"
    /\ dCall.result = "returned"
    /\ dCall.failedBefore
    /\ ~dCall.destBefore.exists
    /\ dFs.dest = FileOf(<<"a", "b">>)

\* C13: when the response declares an HTML content type and its first chunk
\* holds a login-page marker, the caller receives AuthenticationError, not a
\* download error, and nothing has been written to the temp file or to the
\* destination.
C13_LoginPageRaisesAuthenticationError ==
    (/\ dCall.pc = "idle"
     /\ dCall.html /\ IsLoginPage(dCall.body)
     /\ dCall.cause = "AuthenticationError") =>
        /\ dCall.result = "AuthenticationError"
        /\ dFs.tmp = Absent
        /\ dFs.dest = dCall.destBefore

-----------------------------------------------------------------------------
(* Claims about add_file, checked under SpecUpload *)

\* the allow-list as the claim gives it, as suffixes
C14_AllowList ==
    {".pdf", ".txt", ".md", ".docx", ".csv", ".mp3", ".mp4", ".jpg", ".jpeg", ".png"}

\* extensions count without regard to case
C14_Allowed(ext) == LowerSuffix(ext) \in C14_AllowList

\* C14: a missing file, a 0-byte file and a file whose extension is not in
\* the allow-list are rejected with FileValidationError before any network
\* call: no register RPC, no start-session POST, no upload.
C14_RejectedBeforeNetwork ==
    (/\ uCall.pc # "idle"
     /\ \/ uFile.kind = "missing"
        \/ uFile.size = 0
        \/ ~C14_Allowed(uFile.ext)) =>
        /\ uCall.pc = "done"
        /\ uCall.result = "FileValidationError"
        /\ uCall.net = <<>>

\* a regular file of 0 bytes with a supported extension has been rejected
C14_Witness ==
    /\ uCall.pc = "done"
    /\ uFile = [kind |-> "file", size |-> 0, ext |-> ".pdf", wait |-> FALSE]
    /\ uCall.result = "FileValidationError"

C15_Steps == <<"register", "start", "upload">>

C15_Failed(ans) == ans \in {"noid", "", "HTTPError", "AuthenticationError"}

\* C15: the requests are issued in the order register, start session, stream
\* bytes; start session carries the SOURCE_ID the register step returned and
\* the bytes go to the upload URL the start-session step returned; after a
\* step that fails (a start-session response without x-goog-upload-url
\* included) no later step is executed and add_file raises.
C15_ProtocolOrder ==
    /\ Len(uCall.net) <= 3
    /\ \A i \in 1..Len(uCall.net) : uCall.net[i].step = C15_Steps[i]
    /\ \A i \in 2..Len(uCall.net) :
          /\ ~C15_Failed(uCall.net[i - 1].ans)
          /\ uCall.net[i].arg = uCall.net[i - 1].ans
    /\ (uCall.net # <<>> /\ C15_Failed(uCall.net[Len(uCall.net)].ans)) =>
          /\ uCall.pc = "done"
          /\ uCall.result \in {"FileUploadError", "HTTPError", "AuthenticationError"}
    /\ (uCall.pc = "done" /\ uCall.result = "returned") =>
          /\ Len(uCall.net) = 3
          /\ uCall.net[3].ans = "ok"

\* the start-session response came without the header: add_file has raised
\* after two requests
C15_Witness ==
    /\ uCall.pc = "done"
    /\ Len(uCall.net) = 2
    /\ uCall.net[1].ans = "s2"
    /\ uCall.net[2] = [step |-> "start", arg |-> "s2", ans |-> ""]
    /\ uCall.result = "FileUploadError"

-----------------------------------------------------------------------------
(* wait_for_source_ready (core/sources.py)                                  *)
(*                                                                          *)
(* Time is counted in clock ticks since start = time.time().  A poll is the *)
(* call get_notebook_sources_with_types(notebook_id), an RPC round trip     *)
(* that takes at least one tick, followed by the search for source_id in    *)
(* what it returned.                                                        *)

notWait == <<coreVars, buildVars, downloadVars, uploadVars, artifactVars, toolVars,
    tailVars>>

SOURCE_STATUS_PROCESSING == 1
SOURCE_STATUS_READY == 2
SOURCE_STATUS_ERROR == 3
SOURCE_STATUS_PREPARING == 5

\* what a poll can give: the call raises, the list has no source with this
\* id, or the first source with this id has one of these statuses (4 stands
\* for a status the class has no name for)
PollResults ==
    {[kind |-> k, status |-> 0] : k \in {"raises", "absent"}} \cup
    {[kind |-> "found", status |-> st] :
        st \in {SOURCE_STATUS_PROCESSING, SOURCE_STATUS_READY, SOURCE_STATUS_ERROR, 4,
                SOURCE_STATUS_PREPARING}}

\* while time.time() - start <= timeout
WithinTimeout_inclusive(elapsed, timeout) == elapsed <= timeout

\* while time.time() - start < timeout
WithinTimeout(elapsed, timeout) == elapsed < timeout

\* the loop test, and raise TimeoutError behind the loop
WaitCheck ==
    /\ wCall.pc = "check"
    /\ wCall' = IF WithinTimeout(wCall.elapsed, wIn.timeout)
                THEN [wCall EXCEPT !.pc = "poll"]
                ELSE [wCall EXCEPT !.pc = "done", !.result = "TimeoutError"]
    /\ UNCHANGED <<wIn, notWait>>

\* sources = self.get_notebook_sources_with_types(notebook_id) and the for
\* loop over sources
WaitPoll ==
    /\ wCall.pc = "poll"
    /\ \E seen \in PollResults, ticks \in 1..MaxPollTicks :
          LET polled == [wCall EXCEPT !.elapsed = @ + ticks,
                                      !.polls = Append(@, [at |-> wCall.elapsed,
                                                           seen |-> seen])]
          IN  wCall' =
                 CASE seen.kind = "raises" ->
                        [polled EXCEPT !.pc = "done", !.result = "propagated"]
                   [] seen.kind = "found" /\ seen.status = SOURCE_STATUS_READY ->
                        [polled EXCEPT !.pc = "done", !.result = "returned"]
                   [] seen.kind = "found" /\ seen.status = SOURCE_STATUS_ERROR ->
                        [polled EXCEPT !.pc = "done", !.result = "RuntimeError"]
                   [] OTHER -> [polled EXCEPT !.pc = "sleep"]
    /\ UNCHANGED <<wIn, notWait>>

\* time.sleep(poll_interval)
WaitSleep ==
    /\ wCall.pc = "sleep"
    /\ wCall' = [wCall EXCEPT !.pc = "check", !.elapsed = @ + wIn.poll_interval]
    /\ UNCHANGED <<wIn, notWait>>

InitWait ==
    /\ \E timeout \in 0..MaxTimeout, poll_interval \in 0..MaxPollInterval :
          wIn = [timeout |-> timeout, poll_interval |-> poll_interval]
    /\ wCall = [NoWait EXCEPT !.pc = "check"]
    /\ IdleRpc /\ IdleRetry /\ IdleExtract /\ IdleParse /\ IdleBuild /\ IdleDownload
    /\ IdleUpload /\ IdleArtifact /\ IdleTool /\ IdleTail

NextWait ==
    \/ WaitCheck
    \/ WaitPoll
    \/ WaitSleep

\* the function is sequential code: a statement that can run does run
SpecWait == InitWait /\ [][NextWait]_vars /\ WF_vars(NextWait)

-----------------------------------------------------------------------------
(* The MCP tools studio_delete, note and studio_create (mcp/tools)          *)

notTool == <<coreVars, buildVars, downloadVars, uploadVars, artifactVars, waitVars,
    tailVars>>

VALID_ARTIFACT_TYPES ==
    {"audio", "video", "infographic", "slide_deck", "report", "flashcards", "quiz",
     "data_table", "mind_map"}

valid_actions == {"create", "list", "update", "delete"}

ToolReturns(status, calls) == [done |-> TRUE, status |-> status, calls |-> calls]

\* get_client() and one service call inside the try block of a tool: the
\* service is called only when get_client() returned, and every exception
\* becomes an error dict
Served(in, call) ==
    IF in.client = "raises" THEN ToolReturns("error", <<>>)
    ELSE ToolReturns(IF in.service = "ok" THEN "success" ELSE "error", <<call>>)

studio_delete_unconfirmed(in) == Served(in, "delete_artifact")

studio_delete(in) ==
    IF ~in.confirm THEN ToolReturns("error", <<>>)
    ELSE Served(in, "delete_artifact")

note(in) ==
    IF in.action \notin valid_actions THEN ToolReturns("error", <<>>)
    ELSE IF in.client = "raises" THEN ToolReturns("error", <<>>)
    ELSE CASE in.action = "create" -> Served(in, "create_note")
           [] in.action = "list" -> Served(in, "list_notes")
           [] in.action = "update" ->
                IF in.note_id = "" THEN ToolReturns("error", <<>>)
                ELSE Served(in, "update_note")
           [] in.action = "delete" ->
                IF in.note_id = "" THEN ToolReturns("error", <<>>)
                ELSE IF ~in.confirm THEN ToolReturns("error", <<>>)
                ELSE Served(in, "delete_note")

studio_create(in) ==
    IF in.artifact_type \notin VALID_ARTIFACT_TYPES THEN ToolReturns("error", <<>>)
    ELSE IF ~in.confirm THEN ToolReturns("pending_confirmation", <<>>)
    ELSE Served(in, "create_artifact")

\* the calls
StudioDelete ==
    /\ tIn.tool = "studio_delete" /\ ~tOut.done
    /\ tOut' = studio_delete(tIn)
    /\ UNCHANGED <<tIn, notTool>>

Note ==
    /\ tIn.tool = "note" /\ ~tOut.done
    /\ tOut' = note(tIn)
    /\ UNCHANGED <<tIn, notTool>>

StudioCreate ==
    /\ tIn.tool = "studio_create" /\ ~tOut.done
    /\ tOut' = studio_create(tIn)
    /\ UNCHANGED <<tIn, notTool>>

InitTool ==
    /\ \E confirm \in BOOLEAN, cl \in {"ok", "raises"},
          service \in {"ok", "ServiceError", "ValidationError", "Exception"} :
          LET env == [NoTool EXCEPT !.confirm = confirm, !.client = cl,
                                    !.service = service]
          IN  \/ tIn = [env EXCEPT !.tool = "studio_delete"]
              \/ \E action \in valid_actions \cup {"remove"}, note_id \in {"", "n1"} :
                    tIn = [env EXCEPT !.tool = "note", !.action = action,
                                      !.note_id = note_id]
              \/ \E artifact_type \in VALID_ARTIFACT_TYPES \cup {"podcast"} :
                    tIn = [env EXCEPT !.tool = "studio_create",
                                      !.artifact_type = artifact_type]
    /\ tOut = NotReturned
    /\ IdleRpc /\ IdleRetry /\ IdleExtract /\ IdleParse /\ IdleBuild /\ IdleDownload
    /\ IdleUpload /\ IdleArtifact /\ IdleWait /\ IdleTail

NextTool ==
    \/ StudioDelete
    \/ Note
    \/ StudioCreate

SpecTool == InitTool /\ [][NextTool]_vars

-----------------------------------------------------------------------------
(* The service layer: download_sync, download_async (services/downloads.py) *)
(* and create_artifact (services/studio.py)                                 *)

notService == <<coreVars, midVars, registerVars, mindVars, raceVars>>

VALID_DOWNLOAD_TYPES ==
    {"audio", "video", "report", "mind_map", "slide_deck", "infographic", "data_table",
     "quiz", "flashcards"}

VALID_OUTPUT_FORMATS == {"json", "markdown", "html"}

INTERACTIVE_TYPES == {"quiz", "flashcards"}

ServiceRaises(exc, calls) == [done |-> TRUE, raised |-> exc, calls |-> calls, value |-> ""]

ServiceReturns(value, calls) ==
    [done |-> TRUE, raised |-> "", calls |-> calls, value |-> value]

\* what a client method does when it is called: it returns a path (or a
\* result dict), returns None, or raises
ClientOutcomes ==
    {"ok", "falsy", "RuntimeError", "ArtifactNotReadyError", "ServiceError",
     "ValidationError"}

\* the client method _dispatch_sync routes to; "" where it raises
\* ValidationError itself
dispatch_sync(artifact_type) ==
    CASE artifact_type = "report" -> "download_report"
      [] artifact_type = "mind_map" -> "download_mind_map"
      [] artifact_type = "data_table" -> "download_data_table"
      [] OTHER -> ""

dispatch_async(artifact_type) ==
    CASE artifact_type = "audio" -> "download_audio"
      [] artifact_type = "video" -> "download_video"
      [] artifact_type = "slide_deck" -> "download_slide_deck"
      [] artifact_type = "infographic" -> "download_infographic"
      [] artifact_type = "quiz" -> "download_quiz"
      [] artifact_type = "flashcards" -> "download_flashcards"
      [] OTHER -> ""

\* every exception leaves the function as it was raised
Reraised_unwrapped(exc) == exc

\* except (ValidationError, ServiceError): raise
\* except Exception as e: raise ServiceError(...)
Reraised(exc) ==
    IF exc \in {"ValidationError", "ServiceError"} THEN exc ELSE "ServiceError"

\* download_sync and download_async, which differ in the dispatcher only
download(in, method) ==
    IF in.artifact_type \notin VALID_DOWNLOAD_TYPES
    THEN ServiceRaises("ValidationError", <<>>)
    ELSE IF in.artifact_type \in INTERACTIVE_TYPES
            /\ in.output_format \notin VALID_OUTPUT_FORMATS
    THEN ServiceRaises("ValidationError", <<>>)
    ELSE IF method = "" THEN ServiceRaises(Reraised("ValidationError"), <<>>)
    ELSE IF in.client = "ok" THEN ServiceReturns("path", <<method>>)
    ELSE IF in.client = "falsy" THEN ServiceRaises("ServiceError", <<method>>)
    ELSE ServiceRaises(Reraised(in.client), <<method>>)

download_sync(in) == download(in, dispatch_sync(in.artifact_type))

download_async(in) == download(in, dispatch_async(in.artifact_type))

\* the types whose options go through resolve_code
CodedTypes == {"audio", "video", "infographic", "slide_deck", "flashcards", "quiz"}

\* the client method _dispatch_create calls
CreateMethod(artifact_type) ==
    CASE artifact_type = "audio" -> "create_audio_overview"
      [] artifact_type = "video" -> "create_video_overview"
      [] artifact_type = "infographic" -> "create_infographic"
      [] artifact_type = "slide_deck" -> "create_slide_deck"
      [] artifact_type = "report" -> "create_report"
      [] artifact_type = "flashcards" -> "create_flashcards"
      [] artifact_type = "quiz" -> "create_quiz"
      [] artifact_type = "data_table" -> "create_data_table"

\* the keyword arguments _dispatch_create passes, besides notebook_id
KeywordsPassed(artifact_type) ==
    CASE artifact_type = "audio" ->
            {"source_ids", "format_code", "length_code", "language", "focus_prompt"}
      [] artifact_type = "video" ->
            {"source_ids", "format_code", "visual_style_code", "language", "focus_prompt"}
      [] artifact_type = "infographic" ->
            {"source_ids", "orientation_code", "detail_level_code", "language",
             "focus_prompt"}
      [] artifact_type = "slide_deck" ->
            {"source_ids", "format_code", "length_code", "language", "focus_prompt"}
      [] artifact_type = "report" ->
            {"source_ids", "report_format", "custom_prompt", "language"}
      [] artifact_type = "flashcards" -> {"source_ids", "difficulty_code", "focus_prompt"}
      [] artifact_type = "quiz" ->
            {"source_ids", "question_count", "difficulty", "focus_prompt"}
      [] artifact_type = "data_table" -> {"source_ids", "description", "language"}

\* the parameters of the client methods of core/studio.py, besides
\* notebook_id
Parameters(method) ==
    CASE method = "create_audio_overview" ->
            {"source_ids", "format_code", "length_code", "language", "focus_prompt"}
      [] method = "create_video_overview" ->
            {"source_ids", "format_code", "visual_style_code", "language", "focus_prompt"}
      [] method = "create_infographic" ->
            {"source_ids", "orientation_code", "detail_level_code", "language",
             "focus_prompt"}
      [] method = "create_slide_deck" ->
            {"source_ids", "format_code", "length_code", "language", "focus_prompt"}
      [] method = "create_report" ->
            {"source_ids", "report_format", "custom_prompt", "language"}
      [] method = "create_flashcards" -> {"source_ids", "difficulty_code"}
      [] method = "create_quiz" -> {"source_ids", "question_count", "difficulty"}
      [] method = "create_data_table" -> {"source_ids", "description", "language"}

\* one client call: a keyword the method has no parameter for is a
\* TypeError raised by the call itself
ClientCall(in, method, keywords, calls) ==
    IF ~(keywords \subseteq Parameters(method))
    THEN ServiceRaises(Reraised("TypeError"), calls)
    ELSE IF in.client = "ok" THEN ServiceReturns("artifact_id", Append(calls, method))
    ELSE IF in.client = "falsy" THEN ServiceRaises("ServiceError", Append(calls, method))
    ELSE ServiceRaises(Reraised(in.client), Append(calls, method))

\* _create_mind_map: generate_mind_map, then save_mind_map
create_mind_map(in, calls) ==
    IF in.client = "ok"
    THEN ServiceReturns("artifact_id", calls \o <<"generate_mind_map", "save_mind_map">>)
    ELSE IF in.client = "falsy"
    THEN ServiceRaises("ServiceError", Append(calls, "generate_mind_map"))
    ELSE ServiceRaises(Reraised(in.client), Append(calls, "generate_mind_map"))

\* _dispatch_create and _validate_result, inside the try block
dispatch_create(in, calls) ==
    IF in.artifact_type = "mind_map" THEN create_mind_map(in, calls)
    ELSE IF in.artifact_type \in CodedTypes /\ in.options = "unknown"
    THEN ServiceRaises(Reraised("ValidationError"), calls)
    ELSE IF in.artifact_type = "data_table" /\ in.description = ""
    THEN ServiceRaises(Reraised("ValidationError"), calls)
    ELSE ClientCall(in, CreateMethod(in.artifact_type),
                    KeywordsPassed(in.artifact_type), calls)

create_artifact(in) ==
    IF in.artifact_type \notin VALID_ARTIFACT_TYPES
    THEN ServiceRaises("ValidationError", <<>>)
    ELSE CASE in.sources = "given" -> dispatch_create(in, <<>>)
           [] in.sources = "fetched" ->
                dispatch_create(in, <<"get_notebook_sources_with_types">>)
           [] in.sources = "fetch_raises" ->
                ServiceRaises("ServiceError", <<"get_notebook_sources_with_types">>)
           [] in.sources = "none" ->
                ServiceRaises("ValidationError", <<"get_notebook_sources_with_types">>)

\* the calls
DownloadSync ==
    /\ sIn.op = "download_sync" /\ ~sOut.done
    /\ sOut' = download_sync(sIn)
    /\ UNCHANGED <<sIn, notService>>

DownloadAsync ==
    /\ sIn.op = "download_async" /\ ~sOut.done
    /\ sOut' = download_async(sIn)
    /\ UNCHANGED <<sIn, notService>>

CreateArtifact ==
    /\ sIn.op = "create_artifact" /\ ~sOut.done
    /\ sOut' = create_artifact(sIn)
    /\ UNCHANGED <<sIn, notService>>

InitService ==
    /\ \E cl \in ClientOutcomes :
          \/ \E op \in {"download_sync", "download_async"},
                artifact_type \in VALID_DOWNLOAD_TYPES \cup {"podcast"},
                output_format \in VALID_OUTPUT_FORMATS \cup {"pdf"} :
                sIn = [NoService EXCEPT !.op = op, !.artifact_type = artifact_type,
                                        !.output_format = output_format, !.client = cl]
          \/ \E artifact_type \in VALID_ARTIFACT_TYPES \cup {"podcast"},
                sources \in {"given", "fetched", "fetch_raises", "none"},
                options \in {"valid", "unknown"}, description \in {"", "d"} :
                sIn = [NoService EXCEPT !.op = "create_artifact",
                                        !.artifact_type = artifact_type,
                                        !.sources = sources, !.options = options,
                                        !.description = description, !.client = cl]
    /\ sOut = NotServed
    /\ IdleRpc /\ IdleRetry /\ IdleExtract /\ IdleParse /\ IdleMid
    /\ IdleRegister /\ IdleMind /\ IdleRace

NextService ==
    \/ DownloadSync
    \/ DownloadAsync
    \/ CreateArtifact

SpecService == InitService /\ [][NextService]_vars

-----------------------------------------------------------------------------
(* The SOURCE_ID search of _register_file_source (core/sources.py)          *)

notRegister == <<coreVars, midVars, serviceVars, mindVars, raceVars>>

\* None, for a value of the response or for the result of extract_id
None == JNull

RegisterAtoms == {None, JStr(<<"a">>), JStr(<<"b">>)}

\* the lists of at most MaxWidth members of S
ListsOver(S) == {JList(items) : items \in UNION {[1..len -> S] : len \in 0..MaxWidth}}

\* decoded registration responses: values nested up to three lists deep,
\* and a few with an empty string
RegisterResults ==
    LET level1 == RegisterAtoms \cup ListsOver({None, JStr(<<"a">>)})
        level2 == level1 \cup ListsOver(level1)
    IN  level2 \cup {JList(<<wrapped>>) : wrapped \in ListsOver(level1)}
               \cup {JStr(<<>>), JList(<<JStr(<<>>)>>),
                     JList(<<JStr(<<>>), JStr(<<"a">>)>>)}

\* def extract_id(data)
RECURSIVE extract_id(_)
extract_id(data) ==
    IF data.t = "str" THEN data
    ELSE IF data.t = "list" /\ Len(data.items) > 0 THEN extract_id(data.items[1])
    ELSE None

\* bool(x) for a decoded value
Truthy(x) ==
    CASE x.t = "null" -> FALSE
      [] x.t = "str" -> x.s # <<>>
      [] x.t = "list" -> x.items # <<>>
      [] x.t = "int" -> x.n # 0
      [] x.t = "bool" -> x.n = 1

\* the end of _register_file_source, from `if result and isinstance(...)`
source_id_of(result) ==
    IF Truthy(result) /\ result.t = "list" /\ Truthy(extract_id(result))
    THEN [done |-> TRUE, raised |-> "", value |-> extract_id(result)]
    ELSE [done |-> TRUE, raised |-> "FileUploadError", value |-> <<>>]

ExtractSourceId ==
    /\ ~gOut.done
    /\ gOut' = source_id_of(gIn)
    /\ UNCHANGED <<gIn, notRegister>>

InitRegister ==
    /\ gIn \in RegisterResults
    /\ gOut = NotRegistered
    /\ IdleRpc /\ IdleRetry /\ IdleExtract /\ IdleParse /\ IdleMid
    /\ IdleService /\ IdleMind /\ IdleRace

NextRegister == ExtractSourceId

SpecRegister == InitRegister /\ [][NextRegister]_vars

-----------------------------------------------------------------------------
(* delete_mind_map (core/studio.py)                                         *)

notMind == <<coreVars, midVars, serviceVars, registerVars, raceVars>>

\* the members of list_result[0]: not a list, the empty list, the entry of
\* another mind map, and entries of mind_map_id whose [1][2][2] is a
\* timestamp, is missing (the entry is truncated) or is None
MindEntries == {"nolist", "empty", "other", "target", "truncated", "null"}

\* mm_entry[0] == mind_map_id, for a list that has a first member
IsTarget(entry) == entry \in {"target", "truncated", "null"}

\* the for loop over mm_list: the timestamp found, "none" when there is
\* none, "IndexError" when mm_entry[0] is evaluated on an empty list
RECURSIVE FindTimestamp(_, _)
FindTimestamp(mm_list, i) ==
    IF i > Len(mm_list) THEN "none"
    ELSE IF mm_list[i] = "nolist" THEN FindTimestamp(mm_list, i + 1)
    ELSE IF mm_list[i] = "empty" THEN "IndexError"
    ELSE IF IsTarget(mm_list[i])
    THEN IF mm_list[i] = "target" THEN "timestamp" ELSE "none"
    ELSE FindTimestamp(mm_list, i + 1)

\* if timestamp:
SecondCallDue(timestamp) == timestamp = "timestamp"

MindRaised(rpcs) ==
    [pc |-> "done", rpcs |-> rpcs, timestamp |-> mCall.timestamp, result |-> "raised"]

\* 1. list_result = self._call_rpc(RPC_LIST_MIND_MAPS, [notebook_id]), and
\* the search for the timestamp
MindList ==
    /\ mCall.pc = "list"
    /\ \E answered \in BOOLEAN :
          LET rpcs == Append(mCall.rpcs, "list")
              found == FindTimestamp(mIn.list, 1)
          IN  mCall' = IF ~answered \/ found = "IndexError" THEN MindRaised(rpcs)
                       ELSE [mCall EXCEPT !.pc = "delete", !.rpcs = rpcs,
                                          !.timestamp = found]
    /\ UNCHANGED <<mIn, notMind>>

\* 2. self._call_rpc(RPC_DELETE_MIND_MAP, ...); return True when there is no
\* timestamp
MindDelete ==
    /\ mCall.pc = "delete"
    /\ \E answered \in BOOLEAN :
          LET rpcs == Append(mCall.rpcs, "delete")
          IN  mCall' = IF ~answered THEN MindRaised(rpcs)
                       ELSE IF SecondCallDue(mCall.timestamp)
                       THEN [mCall EXCEPT !.pc = "sync", !.rpcs = rpcs]
                       ELSE [mCall EXCEPT !.pc = "done", !.rpcs = rpcs,
                                          !.result = "True"]
    /\ UNCHANGED <<mIn, notMind>>

\* 3. self._call_rpc(RPC_LIST_MIND_MAPS, [notebook_id, None, timestamp, [2]])
\* and return True
MindSync ==
    /\ mCall.pc = "sync"
    /\ \E answered \in BOOLEAN :
          LET rpcs == Append(mCall.rpcs, "timestamp")
          IN  mCall' = IF ~answered THEN MindRaised(rpcs)
                       ELSE [mCall EXCEPT !.pc = "done", !.rpcs = rpcs,
                                          !.result = "True"]
    /\ UNCHANGED <<mIn, notMind>>

InitMind ==
    /\ \E len \in 0..MaxMaps :
          \E list \in [1..len -> MindEntries] :
             mIn = [list |-> list, mind_map_id |-> "m1"]
    /\ mCall = [NotDeleting EXCEPT !.pc = "list"]
    /\ IdleRpc /\ IdleRetry /\ IdleExtract /\ IdleParse /\ IdleMid
    /\ IdleService /\ IdleRegister /\ IdleRace

NextMind ==
    \/ MindList
    \/ MindDelete
    \/ MindSync

SpecMind == InitMind /\ [][NextMind]_vars

-----------------------------------------------------------------------------
(* core/download.py: two _download_url running at once for one output path.
   Each coroutine yields at its awaits: before the response, between chunks,
   and when the stream and the client are closed, which comes before the
   rename.  A path names a file; an open handle keeps its file and its
   position when the path is unlinked, renamed or the file truncated. *)

notRace == <<coreVars, midVars, serviceVars, registerVars, mindVars>>

Downloads == {1, 2}

\* the chunks the server sends to download i, and a byte range never written
Chunk(i, k) == [of |-> i, k |-> k]
Hole == [of |-> 0, k |-> 0]
BodyOfDownload(i) == [k \in 1..MaxChunks |-> Chunk(i, k)]

NotStarted ==
    [pc |-> "start", file |-> 0, pos |-> 0, result |-> "none", cause |-> "none"]

\* `open(temp_file, "wb")`: the file temp_file names is truncated, or a new
\* one is created there
OpenWb(fs) ==
    IF fs.tmp # 0
    THEN [fs EXCEPT !.files[fs.tmp] = <<>>]
    ELSE [fs EXCEPT !.tmp = Len(fs.files) + 1, !.files = Append(fs.files, <<>>)]

\* `f.write(chunk)` at the handle's position: bytes past the end of the file
\* leave a hole before them
RECURSIVE Padded(_, _)
Padded(data, n) == IF Len(data) >= n THEN data ELSE Padded(Append(data, Hole), n)

WriteAt(data, pos, chunk) ==
    IF pos < Len(data)
    THEN [data EXCEPT ![pos + 1] = chunk]
    ELSE Append(Padded(data, pos), chunk)

\* `if temp_file.exists(): temp_file.unlink()`
UnlinkTemp(fs) == [fs EXCEPT !.tmp = 0]

\* `temp_file.rename(output_file)`
RenameTemp(fs) == [fs EXCEPT !.dest = fs.tmp, !.tmp = 0]

\* the except clauses: the temp file is removed and ArtifactDownloadError raised
Failed(i, cause) ==
    /\ cFs' = UnlinkTemp(cFs)
    /\ cProc' = [cProc EXCEPT ![i] = [@ EXCEPT !.pc = "done", !.result = "ArtifactDownloadError",
                                                !.cause = cause]]

\* the response arrives and the temp file is opened
OpenTemp(i) ==
    /\ cProc[i].pc = "start"
    /\ cFs' = OpenWb(cFs)
    /\ cProc' = [cProc EXCEPT ![i] = [@ EXCEPT !.pc = "stream", !.file = OpenWb(cFs).tmp]]
    /\ UNCHANGED notRace

\* raise_for_status raises, or the connection fails
ConnectFails(i) ==
    /\ cProc[i].pc = "start"
    /\ Failed(i, "network")
    /\ UNCHANGED notRace

\* the next chunk arrives and is written
WriteChunk(i) ==
    /\ cProc[i].pc = "stream"
    /\ cProc[i].pos < MaxChunks
    /\ cFs' = [cFs EXCEPT !.files[cProc[i].file] =
                  WriteAt(@, cProc[i].pos, BodyOfDownload(i)[cProc[i].pos + 1])]
    /\ cProc' = [cProc EXCEPT ![i].pos = @ + 1]
    /\ UNCHANGED notRace

\* the stream breaks before its end
StreamFails(i) ==
    /\ cProc[i].pc = "stream"
    /\ cProc[i].pos < MaxChunks
    /\ Failed(i, "network")
    /\ UNCHANGED notRace

\* the stream ends: the file is closed, then the stream and the client
CloseStream(i) ==
    /\ cProc[i].pc = "stream"
    /\ cProc[i].pos = MaxChunks
    /\ cProc' = [cProc EXCEPT ![i].pc = "closed"]
    /\ UNCHANGED <<cFs, notRace>>

\* the rename: FileNotFoundError when temp_file names no file, caught by
\* `except Exception`
MoveToFinal(i) ==
    /\ cProc[i].pc = "closed"
    /\ IF cFs.tmp # 0
       THEN /\ cFs' = RenameTemp(cFs)
            /\ cProc' = [cProc EXCEPT ![i] = [@ EXCEPT !.pc = "done", !.result = "returned"]]
       ELSE Failed(i, "FileNotFoundError")
    /\ UNCHANGED notRace

InitRace ==
    /\ cFs = NoDisk
    /\ cProc = [i \in Downloads |-> NotStarted]
    /\ IdleRpc /\ IdleRetry /\ IdleExtract /\ IdleParse /\ IdleMid
    /\ IdleService /\ IdleRegister /\ IdleMind

NextRace ==
    \E i \in Downloads :
        \/ OpenTemp(i)
        \/ ConnectFails(i)
        \/ WriteChunk(i)
        \/ StreamFails(i)
        \/ CloseStream(i)
        \/ MoveToFinal(i)

SpecRace == InitRace /\ [][NextRace]_vars

-----------------------------------------------------------------------------
(* Claims about the artifact parsers, checked under SpecArtifact *)

\* C16: for every malformed or truncated shape of the raw record a parser
\* returns a payload or raises a typed artifact error; no IndexError,
\* TypeError or AttributeError escapes.
C16_ParserTotal ==
    aOut.done =>
        aOut.raised \in {"", "ArtifactParseError", "ArtifactNotReadyError",
                         "ArtifactNotFoundError", "ArtifactDownloadError"}

C17_WellFormed(row) == row.ok

\* the well-formed rows after the first row, in order
C17_DataRows == SelectSeq(Tail(aIn.raw.rows), C17_WellFormed)

C17_Returned == aIn.op = "data_table" /\ aOut.done /\ aOut.raised = ""

\* every returned row has as many cells as the header row: the texts of its
\* first H cells, and empty strings where it has fewer
C17_RowsFitHeaders ==
    LET H == Len(aOut.value.headers) IN
    /\ H = Len(aIn.raw.rows[1].cells)
    /\ Len(aOut.value.rows) = Len(C17_DataRows)
    /\ \A j \in 1..Len(aOut.value.rows) :
          /\ Len(aOut.value.rows[j]) = H
          /\ \A c \in 1..H :
                aOut.value.rows[j][c] =
                    IF c <= Len(C17_DataRows[j].cells)
                    THEN extract_cell_text(C17_DataRows[j].cells[c])
                    ELSE ""

\* a header row that is empty or holds empty cells only raises
C17_EmptyHeadersRaise ==
    (/\ aIn.op = "data_table" /\ aOut.done
     /\ aIn.raw.depth = 6 /\ aIn.raw.rows # <<>>
     /\ aIn.raw.rows[1].ok
     /\ \A c \in 1..Len(aIn.raw.rows[1].cells) :
           extract_cell_text(aIn.raw.rows[1].cells[c]) = "") =>
        aOut.raised = "ArtifactParseError"

C18_Order ==
    <<"data-app-data", "script#application-data", "data-state", "data-config",
      "data-initial-state">>

C18_Parses(i) == Parseable(C18_Order[i], aIn.html[C18_Order[i]])

-----------------------------------------------------------------------------
(* Claims about wait_for_source_ready, checked under SpecWait *)

C19_Done == wCall.pc = "done"

C19_LastPoll == wCall.polls[Len(wCall.polls)]

C19_Saw(i, st) == wCall.polls[i].seen = [kind |-> "found", status |-> st]

\* what the call does with the polls that returned
C19_PollsDecide ==
    \* a source is returned only after a poll observed it READY
    /\ (C19_Done /\ wCall.result = "returned") =>
          /\ wCall.polls # <<>>
          /\ C19_Saw(Len(wCall.polls), SOURCE_STATUS_READY)
    \* the poll that observes READY or ERROR is the last one, and ERROR
    \* raises RuntimeError
    /\ \A i \in 1..Len(wCall.polls) :
          /\ C19_Saw(i, SOURCE_STATUS_ERROR) =>
                i = Len(wCall.polls) /\ C19_Done /\ wCall.result = "RuntimeError"
          /\ C19_Saw(i, SOURCE_STATUS_READY) =>
                i = Len(wCall.polls) /\ C19_Done /\ wCall.result = "returned"
    /\ (C19_Done /\ wCall.result = "RuntimeError") =>
          /\ wCall.polls # <<>>
          /\ C19_Saw(Len(wCall.polls), SOURCE_STATUS_ERROR)
    \* TimeoutError: the timeout has elapsed, and no poll saw READY or ERROR
    /\ (C19_Done /\ wCall.result = "TimeoutError") =>
          /\ wCall.elapsed >= wIn.timeout
          /\ \A i \in 1..Len(wCall.polls) :
                \/ wCall.polls[i].seen.kind = "absent"
                \/ /\ wCall.polls[i].seen.kind = "found"
                   /\ wCall.polls[i].seen.status \notin
                         {SOURCE_STATUS_READY, SOURCE_STATUS_ERROR}
    \* no poll is started after the deadline
    /\ \A i \in 1..Len(wCall.polls) : wCall.polls[i].at < wIn.timeout

C19_ThreeOutcomesOnly ==
    /\ C19_PollsDecide
    /\ C19_Done => wCall.result \in {"returned", "RuntimeError", "TimeoutError"}

C19_ThreeOutcomesOrPollException ==
    /\ C19_PollsDecide
    /\ C19_Done =>
          wCall.result \in {"returned", "RuntimeError", "TimeoutError", "propagated"}
    /\ (C19_Done /\ wCall.result = "propagated") <=>
          (wCall.polls # <<>> /\ C19_LastPoll.seen.kind = "raises")
    /\ \A i \in 1..Len(wCall.polls) :
          wCall.polls[i].seen.kind = "raises" => i = Len(wCall.polls)

\* C19 as claimed: wait_for_source_ready always terminates with exactly one
\* of three outcomes: it returns a source only after a poll observed it
\* READY, raises RuntimeError as soon as a poll observes ERROR, and otherwise
\* raises TimeoutError once the timeout has elapsed; no poll is started after
\* the deadline.
C19_TerminatesThreeWays == []C19_ThreeOutcomesOnly /\ <>C19_Done

\* C19 (amended): the call always terminates, in one of the three ways above
\* when every poll returns, and with the poll's own exception when a poll
\* raises; no poll is started after the deadline.
C19_TerminatesFourWays == []C19_ThreeOutcomesOrPollException /\ <>C19_Done

\* three polls saw the source absent, preparing and processing, and the
\* call ended with TimeoutError
C19_Witness ==
    /\ C19_Done /\ wCall.result = "TimeoutError"
    /\ Len(wCall.polls) = 3
    /\ wCall.polls[1].seen.kind = "absent"
    /\ C19_Saw(2, SOURCE_STATUS_PREPARING)
    /\ C19_Saw(3, SOURCE_STATUS_PROCESSING)

-----------------------------------------------------------------------------
(* Claims about the MCP tools, checked under SpecTool *)

C20_Deletes == {"delete_artifact", "delete_note"}

C20_Called(calls) == \E i \in 1..Len(tOut.calls) : tOut.calls[i] \in calls

C20_DeleteGated ==
    (/\ tOut.done /\ ~tIn.confirm
     /\ \/ tIn.tool = "studio_delete"
        \/ tIn.tool = "note" /\ tIn.action = "delete") =>
        /\ tOut.status = "error"
        /\ ~C20_Called(C20_Deletes)

C20_NoDeleteUnconfirmed == (tOut.done /\ C20_Called(C20_Deletes)) => tIn.confirm

C20_CreateUnconfirmed == tOut.done /\ tIn.tool = "studio_create" /\ ~tIn.confirm

\* C20 as claimed: studio_delete and note(action='delete') never invoke a
\* delete operation unless confirm is True (with confirm False they return
\* an error status), and studio_create with confirm False returns status
\* 'pending_confirmation' without invoking any creation call.
C20_ConfirmGates ==
    /\ C20_DeleteGated
    /\ C20_NoDeleteUnconfirmed
    /\ C20_CreateUnconfirmed =>
          tOut.status = "pending_confirmation" /\ tOut.calls = <<>>

\* C20 (amended): the same, where studio_create with confirm False returns
\* 'pending_confirmation' for a supported artifact_type and an error status
\* for an unknown one, in both cases without any creation call.
C20_ConfirmGatesValidTypes ==
    /\ C20_DeleteGated
    /\ C20_NoDeleteUnconfirmed
    /\ C20_CreateUnconfirmed =>
          /\ tOut.calls = <<>>
          /\ tOut.status = IF tIn.artifact_type \in VALID_ARTIFACT_TYPES
                           THEN "pending_confirmation" ELSE "error"

\* an unconfirmed delete of an existing note, with a working client and
\* service, ended with an error and no service call
C20_Witness ==
    /\ tOut.done /\ ~tIn.confirm
    /\ tIn.tool = "note" /\ tIn.action = "delete" /\ tIn.note_id = "n1"
    /\ tIn.client = "ok" /\ tIn.service = "ok"
    /\ tOut = ToolReturns("error", <<>>)

-----------------------------------------------------------------------------
(* Claims about the service layer, checked under SpecService *)

C21_Downloaded == sIn.op \in {"download_sync", "download_async"} /\ sOut.done

C21_Invalid ==
    \/ sIn.artifact_type \notin
          {"audio", "video", "report", "mind_map", "slide_deck", "infographic",
           "data_table", "quiz", "flashcards"}
    \/ /\ sIn.artifact_type \in {"quiz", "flashcards"}
       /\ sIn.output_format \notin {"json", "markdown", "html"}

\* C21: download_sync and download_async only fail with ValidationError or
\* ServiceError: an unknown type or (quiz/flashcards) an invalid output
\* format raises ValidationError before any client method is invoked, any
\* other exception of the client method is re-raised as ServiceError, and a
\* falsy returned path raises ServiceError.
C21_OnlyServiceErrors ==
    C21_Downloaded =>
        /\ sOut.raised \in {"", "ValidationError", "ServiceError"}
        /\ C21_Invalid => (sOut.raised = "ValidationError" /\ sOut.calls = <<>>)
        /\ (sOut.calls # <<>> /\ sIn.client \in {"RuntimeError", "ArtifactNotReadyError"})
              => sOut.raised = "ServiceError"
        /\ (sOut.calls # <<>> /\ sIn.client = "falsy") => sOut.raised = "ServiceError"
        /\ sOut.raised = "" => (sIn.client = "ok" /\ Len(sOut.calls) = 1)

\* download_async of a quiz whose client method raises ArtifactNotReadyError
C21_Witness ==
    /\ C21_Downloaded
    /\ sIn.op = "download_async" /\ sIn.artifact_type = "quiz"
    /\ sIn.output_format = "markdown" /\ sIn.client = "ArtifactNotReadyError"
    /\ sOut = ServiceRaises("ServiceError", <<"download_quiz">>)

C25_MatchingMethod ==
    [audio |-> "create_audio_overview", video |-> "create_video_overview",
     infographic |-> "create_infographic", slide_deck |-> "create_slide_deck",
     report |-> "create_report", flashcards |-> "create_flashcards",
     quiz |-> "create_quiz", data_table |-> "create_data_table",
     mind_map |-> "save_mind_map"]

\* C25: create_artifact works for all nine artifact types: given valid option
\* names (a description for data_table) and a client whose creation method
\* succeeds, it invokes the matching client method and returns a result with
\* the created artifact id, rather than raising ServiceError.
C25_AllNineTypesCreate ==
    (/\ sIn.op = "create_artifact" /\ sOut.done
     /\ sIn.artifact_type \in DOMAIN C25_MatchingMethod
     /\ sIn.sources \in {"given", "fetched"}
     /\ sIn.options = "valid" /\ sIn.description = "d" /\ sIn.client = "ok") =>
        /\ sOut.raised = ""
        /\ sOut.value = "artifact_id"
        /\ \E i \in 1..Len(sOut.calls) :
              sOut.calls[i] = C25_MatchingMethod[sIn.artifact_type]

-----------------------------------------------------------------------------
(* Claims about the SOURCE_ID search, checked under SpecRegister *)

\* the strings of a value in depth-first, left-to-right, pre-order
RECURSIVE C23_Strings(_)
C23_Strings(v) ==
    IF v.t = "str" THEN <<v>>
    ELSE IF v.t = "list" /\ v.items # <<>>
    THEN LET RECURSIVE Flat(_)
             Flat(i) == IF i > Len(v.items) THEN <<>>
                        ELSE C23_Strings(v.items[i]) \o Flat(i + 1)
         IN  Flat(1)
    ELSE <<>>

\* C23: for every nested-list response, _register_file_source returns the
\* first string of a depth-first, left-to-right, pre-order traversal, and
\* raises FileUploadError exactly when the response holds no string.
C23_FirstStringDepthFirst ==
    (gOut.done /\ gIn.t = "list") =>
        IF C23_Strings(gIn) = <<>>
        THEN gOut.raised = "FileUploadError"
        ELSE gOut.raised = "" /\ gOut.value = C23_Strings(gIn)[1]

-----------------------------------------------------------------------------
(* Claims about delete_mind_map, checked under SpecMind *)

C24_Order == <<"list", "delete", "timestamp">>

\* the target mind map is an entry the search gets to
C24_TargetListed ==
    \E i \in 1..Len(mIn.list) :
       /\ mIn.list[i] \in {"target", "truncated", "null"}
       /\ \A j \in 1..(i - 1) : mIn.list[j] \in {"nolist", "other"}

\* C24: the RPCs are issued in the order list, UUID delete, timestamp call;
\* whenever the target mind map appears in the list response the timestamp
\* RPC is issued after the delete RPC and never omitted, so a True result
\* implies both were sent.
C24_SecondCallNeverOmitted ==
    /\ Len(mCall.rpcs) <= 3
    /\ mCall.rpcs = SubSeq(C24_Order, 1, Len(mCall.rpcs))
    /\ (mCall.result = "True" /\ C24_TargetListed) => mCall.rpcs = C24_Order

-----------------------------------------------------------------------------
(* Further claims about _call_rpc, the recovery layers and the token cache *)

\* C22: after layer 2 has reloaded the cached session from disk and cleared
\* csrf_token and the session id, the tokens are derived again, so the
\* retried request carries a fresh, non-empty CSRF token and not none.
C22_RetryCarriesFreshCsrf ==
    hist.afterReload => (hist.bodyCsrf # "" /\ csrf_token # "")

\* C26: over all frames of one originating call, those entered after a
\* recovery step included, the number of backoff retries for 429/5xx is at
\* most DEFAULT_MAX_RETRIES.
C26_BackoffRetriesBounded == hist.sleeps <= DEFAULT_MAX_RETRIES

\* a call is in progress
C27_Running == pc \in {"post", "refresh", "reload"}

\* every call in progress ends, by a return or a raise
C27_Terminates == C27_Running ~> (pc = "done")

\* at most 3 x (DEFAULT_MAX_RETRIES + 1) POSTs and as many frames
C27_AtMost12 ==
    /\ hist.posts <= 3 * (DEFAULT_MAX_RETRIES + 1)
    /\ Len(stack) <= 3 * (DEFAULT_MAX_RETRIES + 1)

\* at most 4 x (DEFAULT_MAX_RETRIES + 1) POSTs, and 3 x (DEFAULT_MAX_RETRIES
\* + 1) frames
C27_AtMost16 ==
    /\ hist.posts <= 4 * (DEFAULT_MAX_RETRIES + 1)
    /\ Len(stack) <= 3 * (DEFAULT_MAX_RETRIES + 1)

C28_FailedRefresh == pc = "refresh" /\ pc' # "post"

\* C28: a token refresh that raises ValueError leaves cookies, csrf_token
\* and the session id as they were and does not write the token cache.
C28_FailedRefreshChangesNothing ==
    [][C28_FailedRefresh =>
          UNCHANGED <<cookies, csrf_token, session_id, profile, authJson>>]_vars

\* a refresh has failed and the call has gone on to layers 2 and 3
C28_Witness ==
    /\ pc = "reload"
    /\ hist.nRefresh = 1
    /\ hist.scraped = ""
    /\ authJson.exists

\* the token cache written by save_tokens_to_cache holds the session's tokens
C30_Saved ==
    /\ authJson.exists
    /\ authJson.csrf = csrf_token
    /\ authJson.sid = session_id

\* C30: after a refresh that succeeded and saved, load_cached_tokens returns
\* tokens whose csrf_token and session_id are the refreshed ones, with only
\* auth.json on disk and with a default profile on disk.
C30_CacheRoundTrip ==
    [][(pc = "refresh" /\ pc' = "post" /\ C30_Saved') =>
          /\ load_cached_tokens'.exists
          /\ load_cached_tokens'.csrf = csrf_token'
          /\ load_cached_tokens'.sid = session_id']_vars

-----------------------------------------------------------------------------
(* Claim about concurrent downloads, checked under SpecRace *)

\* the file at the final destination
C29_Final == cFs.files[cFs.dest]

\* C29: under any interleaving of two _download_url for one output path, a
\* file at the final destination always holds the complete body of exactly
\* one of the downloads, never partial or interleaved bytes, and a download
\* fails only through a failure of its own connection or stream, never
\* through the other download.
C29_DestinationWholeAndIndependent ==
    /\ cFs.dest # 0 => \E i \in Downloads : C29_Final = BodyOfDownload(i)
    /\ \A i \in Downloads :
          cProc[i].result = "ArtifactDownloadError" => cProc[i].cause = "network"

====
